---- MODULE Spec2Model ----
(***************************************************************************)
(* MS-DOS date and time (dos-date-time): the packed 16-bit Date and Time,  *)
(* the DateTime that combines them, and their conversions from and to the  *)
(* calendar types of the `time` crate.                                     *)
(*                                                                         *)
(* A behaviour is one use of the library: Init draws the inputs (a raw     *)
(* 16-bit value, a calendar date, a calendar time), and each action is one *)
(* call of the library applied to what the previous calls produced.        *)
(***************************************************************************)
EXTENDS Integers, FiniteSets, Sequences

VARIABLES
    scenario,   \* which values the use of the library is about
    pc,         \* how far the use has got: "raw", "new", "cal", "done", "panic"
    rawDate,    \* the u16 handed to Date::new
    rawTime,    \* the u16 handed to Time::new
    date,       \* Option<Date> returned by Date::new
    time,       \* Option<Time> returned by Time::new
    dt,         \* the DateTime built by DateTime::new
    calDate,    \* a time::Date
    calTime,    \* a time::Time (hour, minute, second)
    dateRes,    \* Result<Date, DateRangeError> of Date::from_date
    timeRes,    \* the Time returned by Time::from_time
    dtRes,      \* Result<DateTime, DateTimeRangeError> of DateTime::from_date_time
    other,      \* the right-hand side of a comparison: raw values, or the
                \* second calendar time of a pair
    out         \* what the last accessor, comparison or formatting returned

vars == <<scenario, pc, rawDate, rawTime, date, time, dt, calDate, calTime,
          dateRes, timeRes, dtRes, other, out>>

----------------------------------------------------------------------------
(* Bounds of the inputs.                                                   *)

\* Calendar years drawn below 1980 and above 2107.
YearsBelow == 2
YearsAbove == 2
\* A DateTime is a pair: its raw inputs are every DateStride-th raw date and
\* every TimeStride-th raw time (and the boundary values).
DateStride == 331
TimeStride == 277

----------------------------------------------------------------------------
(* Primitive integers.                                                     *)

U16_MAX == 65535
U8_MAX == 255
U16 == 0..U16_MAX

RECURSIVE BitOr(_, _)
\* a | b
BitOr(a, b) ==
    IF a = 0 THEN b
    ELSE IF b = 0 THEN a
    ELSE (IF a % 2 = 1 \/ b % 2 = 1 THEN 1 ELSE 0) + 2 * BitOr(a \div 2, b \div 2)

RECURSIVE BitAnd(_, _)
\* a & b
BitAnd(a, b) ==
    IF a = 0 \/ b = 0 THEN 0
    ELSE (IF a % 2 = 1 /\ b % 2 = 1 THEN 1 ELSE 0) + 2 * BitAnd(a \div 2, b \div 2)

\* a >> n
Shr(a, n) == a \div (2 ^ n)

\* a << n on u16: the bits shifted out are lost
Shl16(a, n) == (a * (2 ^ n)) % (U16_MAX + 1)

----------------------------------------------------------------------------
(* Formatting: a text is a sequence of one-character strings.              *)

DigitChars == <<"0", "1", "2", "3", "4", "5", "6", "7", "8", "9">>

\* the decimal digits of a natural number, as `{}` writes them
RECURSIVE Digits(_)
Digits(n) ==
    IF n < 10 THEN <<DigitChars[n + 1]>>
    ELSE Digits(n \div 10) \o <<DigitChars[(n % 10) + 1]>>

\* `{n:0width}`: zeros on the left up to the width, nothing cut off
Pad(n, width) ==
    LET d == Digits(n)
    IN [i \in 1..(IF width > Len(d) THEN width - Len(d) ELSE 0) |-> "0"] \o d

----------------------------------------------------------------------------
(* Values.                                                                 *)

None == [tag |-> "None", raw |-> 0]
Some(r) == [tag |-> "Some", raw |-> r]
Unset == [tag |-> "Unset", raw |-> 0]

Ok(r) == [tag |-> "Ok", raw |-> r, kind |-> "-"]
Err(k) == [tag |-> "Err", raw |-> 0, kind |-> k]
NoResult == [tag |-> "Unset", raw |-> 0, kind |-> "-"]
Panicked == [tag |-> "Panic", raw |-> 0, kind |-> "-"]

NoOther == [date |-> 0, time |-> 0]
NoOut == [op |-> "-", s |-> "-", n |-> 0, text |-> <<>>]

NoCalDate == [year |-> 0, month |-> 0, day |-> 0]
NoCalTime == [hour |-> 0 - 1, minute |-> 0 - 1, second |-> 0 - 1]

----------------------------------------------------------------------------
(* The calendar types of the `time` crate, as the library uses them.       *)

\* time::util::is_leap_year
is_leap_year(year) == year % 4 = 0 /\ (year % 25 # 0 \/ year % 16 = 0)

\* time::Month::length
days_in_month(year, month) ==
    IF month \in {1, 3, 5, 7, 8, 10, 12} THEN 31
    ELSE IF month \in {4, 6, 9, 11} THEN 30
    ELSE IF is_leap_year(year) THEN 29
    ELSE 28

\* Month::try_from(u8): Ok for 1..=12
Month_try_from(n) == IF n >= 1 /\ n <= 12 THEN Some(n) ELSE None

\* time::Date::from_calendar_date(year, month, day): month is a Month
from_calendar_date(year, month, day) ==
    IF year >= 0 - 9999 /\ year <= 9999 /\ day >= 1 /\ day <= days_in_month(year, month)
    THEN [tag |-> "Ok", v |-> [year |-> year, month |-> month, day |-> day]]
    ELSE [tag |-> "Err", v |-> NoCalDate]

\* time::Time::from_hms(hour, minute, second)
from_hms(hour, minute, second) ==
    IF hour <= 23 /\ minute <= 59 /\ second <= 59
    THEN [tag |-> "Ok", v |-> [hour |-> hour, minute |-> minute, second |-> second]]
    ELSE [tag |-> "Err", v |-> NoCalTime]

----------------------------------------------------------------------------
(* Date.                                                                   *)

\* Date::from_date with the epoch year itself refused (..=1980)
Date_from_date_epoch_off(d) ==
    IF d.year <= 1980 THEN Err("Negative")
    ELSE IF d.year >= 2108 THEN Err("Overflow")
    ELSE Ok(BitOr(BitOr(Shl16(d.year - 1980, 9), Shl16(d.month, 5)), d.day))

\* Date::from_date packing the year itself, not its offset from 1980
Date_from_date_no_offset(d) ==
    IF d.year <= 1979 THEN Err("Negative")
    ELSE IF d.year >= 2108 THEN Err("Overflow")
    ELSE Ok(BitOr(BitOr(Shl16(d.year, 9), Shl16(d.month, 5)), d.day))

\* Date::from_date with the month shifted by 4 bits, into the day
Date_from_date_shift4(d) ==
    IF d.year <= 1979 THEN Err("Negative")
    ELSE IF d.year >= 2108 THEN Err("Overflow")
    ELSE Ok(BitOr(BitOr(Shl16(d.year - 1980, 9), Shl16(d.month, 4)), d.day))

\* Date::from_date
Date_from_date(d) ==
    IF d.year <= 1979 THEN Err("Negative")
    ELSE IF d.year >= 2108 THEN Err("Overflow")
    ELSE
        IF d.year - 1980 > U16_MAX THEN Panicked
        ELSE LET year == d.year - 1980
                 month == d.month
                 day == d.day
             IN Ok(BitOr(BitOr(Shl16(year, 9), Shl16(month, 5)), day))

\* Date::new without the calendar check of time::Date::from_calendar_date
Date_new_no_calendar(raw) ==
    LET m == BitAnd(Shr(raw, 5), 15)
        day == BitAnd(raw, 31)
    IN IF Month_try_from(m).tag = "None" \/ day = 0 THEN None ELSE Some(raw)

\* Date::new with a leap year every fourth year
Date_new_julian(raw) ==
    LET year == 1980 + Shr(raw, 9)
        m == BitAnd(Shr(raw, 5), 15)
        day == BitAnd(raw, 31)
        last == IF m = 2 THEN (IF year % 4 = 0 THEN 29 ELSE 28)
                ELSE days_in_month(year, m)
    IN IF Month_try_from(m).tag = "None" THEN None
       ELSE IF day >= 1 /\ day <= last THEN Some(raw)
       ELSE None

\* Date::new
Date_new(raw) ==
    LET year == 1980 + Shr(raw, 9)
        m == BitAnd(Shr(raw, 5), 15)
        day == BitAnd(raw, 31)
    IN IF m > U8_MAX \/ day > U8_MAX THEN [tag |-> "Panic", raw |-> 0]
       ELSE IF Month_try_from(m).tag = "None" THEN None
       ELSE LET cal == from_calendar_date(year, Month_try_from(m).raw, day)
            IN IF cal.tag = "Err" THEN None
               ELSE LET r == Date_from_date(cal.v)
                    IN IF r.tag = "Ok" THEN Some(r.raw)
                       ELSE IF r.tag = "Panic" THEN [tag |-> "Panic", raw |-> 0]
                       ELSE None

\* Date::new_unchecked: the raw value is kept as it is
Date_new_unchecked(raw) == raw

\* Date::to_raw
Date_to_raw(d) == d

\* Date::year
Date_year(d) == 1980 + Shr(Date_to_raw(d), 9)

\* Date::month: the Month, or None where the `expect` fails
Date_month(d) == Month_try_from(BitAnd(Shr(Date_to_raw(d), 5), 15))

\* Date::day with the mask of the Month field (0x0F)
Date_day_mask4(d) == BitAnd(Date_to_raw(d), 15)

\* Date::day
Date_day(d) == BitAnd(Date_to_raw(d), 31)

\* Date::is_valid looking at the ranges of the month and the day only
Date_is_valid_ranges_only(d) ==
    /\ BitAnd(Shr(Date_to_raw(d), 5), 15) \in 1..12
    /\ BitAnd(Date_to_raw(d), 31) \in 1..31

\* Date::is_valid
Date_is_valid(d) == Date_new(Date_to_raw(d)).tag = "Some"

\* Display for Date with the month and the day written as `{}`
Date_fmt_unpadded(d) ==
    Pad(Date_year(d), 4) \o <<"-">> \o Digits(Date_month(d).raw)
        \o <<"-">> \o Digits(Date_day(d))

\* impl Display for Date: "{year:04}-{month:02}-{day:02}"
Date_fmt(d) ==
    Pad(Date_year(d), 4) \o <<"-">> \o Pad(Date_month(d).raw, 2)
        \o <<"-">> \o Pad(Date_day(d), 2)

\* Date::cmp comparing day, then month, then year
Date_cmp_day_first(a, b) ==
    LET x == <<BitAnd(a, 31), BitAnd(Shr(a, 5), 15), Shr(a, 9)>>
        y == <<BitAnd(b, 31), BitAnd(Shr(b, 5), 15), Shr(b, 9)>>
    IN IF x = y THEN "Equal"
       ELSE IF \E i \in 1..3 : x[i] < y[i] /\ \A j \in 1..(i - 1) : x[j] = y[j]
       THEN "Less" ELSE "Greater"

\* #[derive(Ord)] on Date(u16): the order of the u16 inside
Date_cmp(a, b) ==
    IF Date_to_raw(a) < Date_to_raw(b) THEN "Less"
    ELSE IF Date_to_raw(a) = Date_to_raw(b) THEN "Equal"
    ELSE "Greater"

\* impl From<Date> for time::Date
TimeDate_from(d) ==
    IF Date_month(d).tag = "None" THEN [tag |-> "Panic", v |-> NoCalDate]
    ELSE LET cal == from_calendar_date(Date_year(d), Date_month(d).raw, Date_day(d))
         IN IF cal.tag = "Err" THEN [tag |-> "Panic", v |-> NoCalDate] ELSE cal

\* Date::MIN, Date::MAX
Date_MIN == 33
Date_MAX == 65439

\* impl Default for Date
Date_default == Date_MIN

----------------------------------------------------------------------------
(* Time.                                                                   *)

\* u16::min
Min(a, b) == IF a <= b THEN a ELSE b

\* Time::from_time with the Minute field shifted by 6
Time_from_time_shift6(t) ==
    BitOr(BitOr(Shl16(t.hour, 11), Shl16(t.minute, 6)), Min(t.second \div 2, 29))

\* Time::from_time rounding the seconds up
Time_from_time_round_up(t) ==
    BitOr(BitOr(Shl16(t.hour, 11), Shl16(t.minute, 5)), Min((t.second + 1) \div 2, 29))

\* Time::from_time rounding the seconds to the nearest even second, unclamped
Time_from_time_nearest(t) ==
    BitOr(BitOr(Shl16(t.hour, 11), Shl16(t.minute, 5)), (t.second + 1) \div 2)

\* Time::from_time with the hour in the low bits and the seconds in the
\* high bits
Time_from_time_hour_low(t) ==
    BitOr(BitOr(Shl16(Min(t.second \div 2, 29), 11), Shl16(t.minute, 5)), t.hour)

\* Time::from_time with the clamp one step too low
Time_from_time_clamp28(t) ==
    BitOr(BitOr(Shl16(t.hour, 11), Shl16(t.minute, 5)), Min(t.second \div 2, 28))

\* Time::from_time
Time_from_time(t) ==
    LET hour == t.hour
        minute == t.minute
        second == Min(t.second \div 2, 29)
    IN BitOr(BitOr(Shl16(hour, 11), Shl16(minute, 5)), second)

\* Time::new without the doubling of the DoubleSeconds field
Time_new_unscaled(raw) ==
    LET cal == from_hms(Shr(raw, 11), BitAnd(Shr(raw, 5), 63), BitAnd(raw, 31))
    IN IF cal.tag = "Err" THEN None
       ELSE Some(Time_from_time([cal.v EXCEPT !.second = 2 * cal.v.second]))

\* Time::new
Time_new(raw) ==
    LET hour == Shr(raw, 11)
        minute == BitAnd(Shr(raw, 5), 63)
        second == BitAnd(raw, 31) * 2
    IN IF hour > U8_MAX \/ minute > U8_MAX \/ second > U8_MAX
       THEN [tag |-> "Panic", raw |-> 0]
       ELSE LET cal == from_hms(hour, minute, second)
            IN IF cal.tag = "Err" THEN None
               ELSE Some(Time_from_time(cal.v))

\* Time::new_unchecked: the raw value is kept as it is
Time_new_unchecked(raw) == raw

\* Time::to_raw
Time_to_raw(t) == t

\* Time::hour clamped to the hours of a day
Time_hour_clamped(t) == Min(Shr(Time_to_raw(t), 11), 23)

\* Time::hour
Time_hour(t) == Shr(Time_to_raw(t), 11)

\* Time::minute with the mask of the DoubleSeconds field (0x1F)
Time_minute_mask5(t) == BitAnd(Shr(Time_to_raw(t), 5), 31)

\* Time::minute
Time_minute(t) == BitAnd(Shr(Time_to_raw(t), 5), 63)

\* Time::second without the doubling of the DoubleSeconds field
Time_second_unscaled(t) == BitAnd(Time_to_raw(t), 31)

\* Time::second
Time_second(t) == BitAnd(Time_to_raw(t), 31) * 2

\* Time::is_valid, the revalidation that Date::is_valid does: the raw value
\* goes through Time::new
Time_is_valid(t) == Time_new(Time_to_raw(t)).tag = "Some"

\* impl Display for Time: "{hour:02}:{minute:02}:{second:02}"
Time_fmt(t) ==
    Pad(Time_hour(t), 2) \o <<":">> \o Pad(Time_minute(t), 2)
        \o <<":">> \o Pad(Time_second(t), 2)

\* Time::cmp comparing second, then minute, then hour
Time_cmp_second_first(a, b) ==
    LET x == <<BitAnd(a, 31), BitAnd(Shr(a, 5), 63), Shr(a, 11)>>
        y == <<BitAnd(b, 31), BitAnd(Shr(b, 5), 63), Shr(b, 11)>>
    IN IF x = y THEN "Equal"
       ELSE IF \E i \in 1..3 : x[i] < y[i] /\ \A j \in 1..(i - 1) : x[j] = y[j]
       THEN "Less" ELSE "Greater"

\* #[derive(Ord)] on Time(u16): the order of the u16 inside
Time_cmp(a, b) ==
    IF Time_to_raw(a) < Time_to_raw(b) THEN "Less"
    ELSE IF Time_to_raw(a) = Time_to_raw(b) THEN "Equal"
    ELSE "Greater"

\* impl From<Time> for time::Time
TimeTime_from(t) ==
    LET cal == from_hms(Time_hour(t), Time_minute(t), Time_second(t))
    IN IF cal.tag = "Err" THEN [tag |-> "Panic", v |-> NoCalTime] ELSE cal

\* Time::MAX as 23:59:56
Time_MAX_short == 49021 - 1

\* Time::MIN, Time::MAX
Time_MIN == 0
Time_MAX == 49021

\* impl Default for Time
Time_default == Time_MIN

----------------------------------------------------------------------------
(* DateTime.                                                               *)

NoDateTime == [tag |-> "Unset", date |-> 0, time |-> 0]
NoDateTimeResult == [tag |-> "Unset", date |-> 0, time |-> 0, kind |-> "-"]

\* DateTime::new keeping the Date where the Time belongs and the Time where
\* the Date belongs
DateTime_new_swapped(d, t) == [date |-> t, time |-> d]

\* DateTime::new
DateTime_new(d, t) == [date |-> d, time |-> t]

\* DateTime::date
DateTime_date(x) == x.date

\* DateTime::time returning the other field
DateTime_time_swapped(x) == x.date

\* DateTime::time
DateTime_time(x) == x.time

\* DateTime::year, month, day, hour, minute, second
DateTime_year(x) == Date_year(DateTime_date(x))
DateTime_month(x) == Date_month(DateTime_date(x))
DateTime_day(x) == Date_day(DateTime_date(x))
DateTime_hour(x) == Time_hour(DateTime_time(x))
DateTime_minute(x) == Time_minute(DateTime_time(x))
DateTime_second(x) == Time_second(DateTime_time(x))

\* DateTime::cmp with the fields compared in the order time, date
DateTime_cmp_time_first(a, b) ==
    IF Time_cmp(a.time, b.time) # "Equal" THEN Time_cmp(a.time, b.time)
    ELSE Date_cmp(a.date, b.date)

\* #[derive(Ord)] on DateTime { date, time }: the fields in their order
DateTime_cmp(a, b) ==
    IF Date_cmp(a.date, b.date) # "Equal" THEN Date_cmp(a.date, b.date)
    ELSE Time_cmp(a.time, b.time)

\* impl From<DateRangeError> for DateTimeRangeError with both arms giving Overflow
DateTimeRangeError_from_overflow(kind) == "Overflow"

\* impl From<DateRangeError> for DateTimeRangeError
DateTimeRangeError_from(kind) ==
    IF kind = "Negative" THEN "Negative" ELSE "Overflow"

\* DateTime::from_date_time refusing the last second of 2107
DateTime_from_date_time_strict(d, t) ==
    LET r == Date_from_date(d)
    IN IF r.tag = "Err"
       THEN [tag |-> "Err", date |-> 0, time |-> 0,
             kind |-> DateTimeRangeError_from(r.kind)]
       ELSE IF r.raw = Date_MAX /\ t.hour = 23 /\ t.minute = 59 /\ t.second = 59
       THEN [tag |-> "Err", date |-> 0, time |-> 0, kind |-> "Overflow"]
       ELSE [tag |-> "Ok", date |-> r.raw, time |-> Time_from_time(t), kind |-> "-"]

\* DateTime::from_date_time
DateTime_from_date_time(d, t) ==
    LET r == Date_from_date(d)
    IN IF r.tag = "Err"
       THEN [tag |-> "Err", date |-> 0, time |-> 0,
             kind |-> DateTimeRangeError_from(r.kind)]
       ELSE IF r.tag = "Panic"
       THEN [tag |-> "Panic", date |-> 0, time |-> 0, kind |-> "-"]
       ELSE LET x == DateTime_new(r.raw, Time_from_time(t))
            IN [tag |-> "Ok", date |-> x.date, time |-> x.time, kind |-> "-"]

\* impl From<DateTime> for PrimitiveDateTime
PrimitiveDateTime_from(x) ==
    LET d == TimeDate_from(DateTime_date(x))
        t == TimeTime_from(DateTime_time(x))
    IN IF d.tag = "Panic" \/ t.tag = "Panic"
       THEN [tag |-> "Panic", date |-> NoCalDate, time |-> NoCalTime]
       ELSE [tag |-> "Ok", date |-> d.v, time |-> t.v]

\* impl TryFrom<PrimitiveDateTime> for DateTime
DateTime_try_from(p) == DateTime_from_date_time(p.date, p.time)

\* DateTime::MIN, DateTime::MAX
DateTime_MIN == DateTime_new(Date_MIN, Time_MIN)
DateTime_MAX == DateTime_new(Date_MAX, Time_MAX)

----------------------------------------------------------------------------
(* The DateTime of the module date_time, which keeps the two u16.          *)

\* date_time::DateTime::new_unchecked
date_time_new_unchecked(d, t) == [date |-> d, time |-> t]

\* date_time::DateTime::from_date_time with the Overflow arm one year early
date_time_from_date_time_2107(d, t) ==
    IF d.year <= 1979 THEN [tag |-> "Err", date |-> 0, time |-> 0, kind |-> "Negative"]
    ELSE IF d.year >= 2107
    THEN [tag |-> "Err", date |-> 0, time |-> 0, kind |-> "Overflow"]
    ELSE LET dosDate == BitOr(BitOr(Shl16(d.year - 1980, 9), Shl16(d.month, 5)), d.day)
             dosTime == BitOr(BitOr(Shl16(t.hour, 11), Shl16(t.minute, 5)),
                              Min(t.second \div 2, 29))
         IN [tag |-> "Ok", date |-> dosDate, time |-> dosTime, kind |-> "-"]

\* date_time::DateTime::from_date_time
date_time_from_date_time(d, t) ==
    IF d.year <= 1979 THEN [tag |-> "Err", date |-> 0, time |-> 0, kind |-> "Negative"]
    ELSE IF d.year >= 2108
    THEN [tag |-> "Err", date |-> 0, time |-> 0, kind |-> "Overflow"]
    ELSE IF d.year - 1980 > U16_MAX
    THEN [tag |-> "Panic", date |-> 0, time |-> 0, kind |-> "-"]
    ELSE LET year == d.year - 1980
             month == d.month
             day == d.day
             dosDate == BitOr(BitOr(Shl16(year, 9), Shl16(month, 5)), day)
             hour == t.hour
             minute == t.minute
             second == Min(t.second \div 2, 29)
             dosTime == BitOr(BitOr(Shl16(hour, 11), Shl16(minute, 5)), second)
             x == date_time_new_unchecked(dosDate, dosTime)
         IN [tag |-> "Ok", date |-> x.date, time |-> x.time, kind |-> "-"]

\* date_time::DateTime::new
date_time_new(d, t) ==
    LET year == 1980 + Shr(d, 9)
        m == BitAnd(Shr(d, 5), 15)
        day == BitAnd(d, 31)
        hour == Shr(t, 11)
        minute == BitAnd(Shr(t, 5), 63)
        second == BitAnd(t, 31) * 2
        none == [tag |-> "None", date |-> 0, time |-> 0]
        panic == [tag |-> "Panic", date |-> 0, time |-> 0]
    IN IF m > U8_MAX THEN panic
       ELSE IF Month_try_from(m).tag = "None" THEN none
       ELSE IF day > U8_MAX THEN panic
       ELSE LET cd == from_calendar_date(year, Month_try_from(m).raw, day)
            IN IF cd.tag = "Err" THEN none
               ELSE IF hour > U8_MAX \/ minute > U8_MAX \/ second > U8_MAX THEN panic
               ELSE LET ct == from_hms(hour, minute, second)
                    IN IF ct.tag = "Err" THEN none
                       ELSE LET r == date_time_from_date_time(cd.v, ct.v)
                            IN IF r.tag = "Ok"
                               THEN [tag |-> "Some", date |-> r.date, time |-> r.time]
                               ELSE IF r.tag = "Panic" THEN panic ELSE none

\* date_time::DateTime::date, time
date_time_date(x) == x.date
date_time_time(x) == x.time

\* date_time::DateTime::year, month, day, hour, minute, second; month is
\* the Month, or None where the `expect` fails
date_time_year(x) == 1980 + Shr(date_time_date(x), 9)
date_time_month(x) == Month_try_from(BitAnd(Shr(date_time_date(x), 5), 15))
date_time_day(x) == BitAnd(date_time_date(x), 31)
date_time_hour(x) == Shr(date_time_time(x), 11)
date_time_minute(x) == BitAnd(Shr(date_time_time(x), 5), 63)
date_time_second(x) == BitAnd(date_time_time(x), 31) * 2

\* impl Display for date_time::DateTime:
\* "{year:04}-{month:02}-{day:02} {hour:02}:{minute:02}:{second:02}"
date_time_fmt(x) ==
    Pad(date_time_year(x), 4) \o <<"-">> \o Pad(date_time_month(x).raw, 2)
        \o <<"-">> \o Pad(date_time_day(x), 2) \o <<" ">>
        \o Pad(date_time_hour(x), 2) \o <<":">> \o Pad(date_time_minute(x), 2)
        \o <<":">> \o Pad(date_time_second(x), 2)

----------------------------------------------------------------------------
(* The inputs.                                                             *)

Years == (1980 - YearsBelow)..(2107 + YearsAbove)

\* every time::Date of the years drawn
CalendarDates ==
    {[year |-> y, month |-> m, day |-> d] :
        y \in Years, m \in 1..12, d \in 1..31} \
    {c \in [year : Years, month : 1..12, day : 29..31] :
        c.day > days_in_month(c.year, c.month)}

Blank ==
    /\ date = Unset /\ time = Unset /\ dt = NoDateTime
    /\ dateRes = NoResult /\ timeRes = Unset /\ dtRes = NoDateTimeResult
    /\ out = NoOut

\* a raw value is handed to Date::new
InitDateRaw ==
    /\ other = NoOther
    /\ scenario = "Date" /\ pc = "raw"
    /\ rawDate \in U16 /\ rawTime = 0
    /\ calDate = NoCalDate /\ calTime = NoCalTime
    /\ Blank

\* a time::Date is handed to Date::from_date
InitDateCal ==
    /\ other = NoOther
    /\ scenario = "Date" /\ pc = "cal"
    /\ rawDate = 0 /\ rawTime = 0
    /\ calDate \in CalendarDates /\ calTime = NoCalTime
    /\ Blank

\* every time::Time of whole seconds
CalendarTimes == [hour : 0..23, minute : 0..59, second : 0..59]

\* a raw value is handed to Time::new
InitTimeRaw ==
    /\ other = NoOther
    /\ scenario = "Time" /\ pc = "raw"
    /\ rawDate = 0 /\ rawTime \in U16
    /\ calDate = NoCalDate /\ calTime = NoCalTime
    /\ Blank

\* a time::Time is handed to Time::from_time
InitTimeCal ==
    /\ other = NoOther
    /\ scenario = "Time" /\ pc = "cal"
    /\ rawDate = 0 /\ rawTime = 0
    /\ calDate = NoCalDate /\ calTime \in CalendarTimes
    /\ Blank

\* the raw dates and the raw times a DateTime is built from
DateRaws == {r \in U16 : r % DateStride = 0} \cup {Date_MIN, Date_MAX, 11642, 19825}
TimeRaws == {r \in U16 : r % TimeStride = 0} \cup {Time_MIN, Time_MAX, 39712, 21711}

\* the calendar dates and times a DateTime is converted from: the first and
\* the last day of every month, and the ends of the day
DateTimeDates ==
    {c \in CalendarDates : c.day = 1 \/ c.day = days_in_month(c.year, c.month)}
    \cup {[year |-> 2018, month |-> 11, day |-> 17],
          [year |-> 2002, month |-> 11, day |-> 26]}
DateTimeTimes ==
    [hour : {0, 23}, minute : {0, 59}, second : {0, 1, 58, 59}]
    \cup {[hour |-> 10, minute |-> 38, second |-> 30],
          [hour |-> 10, minute |-> 38, second |-> 31],
          [hour |-> 19, minute |-> 25, second |-> 0]}

\* one raw value is handed to Date::new and to Time::new
InitNew ==
    /\ other = NoOther
    /\ scenario = "New" /\ pc = "raw"
    /\ rawDate \in U16 /\ rawTime = rawDate
    /\ calDate = NoCalDate /\ calTime = NoCalTime
    /\ Blank

\* no call at all: a Date and a Time that are constants of the library
InitConst ==
    /\ scenario = "Const" /\ pc = "raw"
    /\ rawDate = 0 /\ rawTime = 0
    /\ date \in {Some(Date_MIN), Some(Date_MAX), Some(Date_default)}
    /\ time \in {Some(Time_MIN), Some(Time_MAX), Some(Time_default)}
    /\ dt = NoDateTime
    /\ calDate = NoCalDate /\ calTime = NoCalTime
    /\ dateRes = NoResult /\ timeRes = Unset /\ dtRes = NoDateTimeResult
    /\ other = NoOther /\ out = NoOut

\* two raw values are handed to Date::new and Time::new
InitDateTimeRaw ==
    /\ other = NoOther
    /\ scenario = "DateTime" /\ pc = "raw"
    /\ rawDate \in DateRaws /\ rawTime \in TimeRaws
    /\ calDate = NoCalDate /\ calTime = NoCalTime
    /\ Blank

\* a time::Date and a time::Time are handed to DateTime::from_date_time
InitDateTimeCal ==
    /\ other = NoOther
    /\ scenario = "DateTime" /\ pc = "cal"
    /\ rawDate = 0 /\ rawTime = 0
    /\ calDate \in DateTimeDates /\ calTime \in DateTimeTimes
    /\ Blank

\* the Dates and the Times of the DateTimes compared with one another:
\* they differ in one field or in several, around 2018-11-17 10:38:30
CmpDates ==
    {Date_from_date(c).raw :
        c \in [year : {2017, 2018}, month : {10, 11}, day : {17, 18}]}
    \cup {Date_MIN, Date_MAX}
CmpTimes ==
    {Time_from_time(c) :
        c \in [hour : {9, 10}, minute : {38, 39}, second : {28, 30}]}
    \cup {Time_MIN, Time_MAX}

\* the raw values of DateRaws and of TimeRaws that the constructors accept
ValidDateRaws == {r \in DateRaws : Date_new(r).tag = "Some"}
ValidTimeRaws == {r \in TimeRaws : Time_new(r).tag = "Some"}

\* two Dates: what Date::new returns for any raw value against Date::MIN and
\* Date::MAX, and the Dates of DateRaws against one another
InitDateCmp ==
    /\ scenario = "DateCmp" /\ pc = "raw"
    /\ rawDate \in U16 /\ rawTime = 0
    /\ date = Date_new(rawDate)
    /\ time = Unset /\ dt = NoDateTime
    /\ other \in {[date |-> b, time |-> 0] :
                     b \in {Date_MIN, Date_MAX}
                           \cup (IF rawDate \in ValidDateRaws THEN ValidDateRaws ELSE {})}
    /\ calDate = NoCalDate /\ calTime = NoCalTime
    /\ dateRes = NoResult /\ timeRes = Unset /\ dtRes = NoDateTimeResult
    /\ out = NoOut

\* two Times: what Time::new returns for any raw value against Time::MIN and Time::MAX, and the Times
\* of TimeRaws against one another
InitTimeCmp ==
    /\ scenario = "TimeCmp" /\ pc = "raw"
    /\ rawDate = 0 /\ rawTime \in U16
    /\ time = Time_new(rawTime)
    /\ date = Unset /\ dt = NoDateTime
    /\ other \in {[date |-> 0, time |-> b] :
                     b \in {Time_MIN, Time_MAX}
                           \cup (IF rawTime \in ValidTimeRaws THEN ValidTimeRaws ELSE {})}
    /\ calDate = NoCalDate /\ calTime = NoCalTime
    /\ dateRes = NoResult /\ timeRes = Unset /\ dtRes = NoDateTimeResult
    /\ out = NoOut

\* two DateTimes: the DateTimes of DateRaws and TimeRaws against
\* DateTime::MIN and DateTime::MAX, and those of CmpDates and CmpTimes
\* against one another
InitDateTimeCmp ==
    /\ scenario = "DateTimeCmp" /\ pc = "new"
    /\ rawDate \in ValidDateRaws \cup CmpDates
    /\ rawTime \in ValidTimeRaws \cup CmpTimes
    /\ date = Date_new(rawDate) /\ time = Time_new(rawTime)
    /\ dt = [tag |-> "Some", date |-> DateTime_new(date.raw, time.raw).date,
                              time |-> DateTime_new(date.raw, time.raw).time]
    /\ other \in {DateTime_MIN, DateTime_MAX}
                 \cup (IF rawDate \in CmpDates /\ rawTime \in CmpTimes
                       THEN {DateTime_new(d, t) : d \in CmpDates, t \in CmpTimes}
                       ELSE {})
    /\ calDate = NoCalDate /\ calTime = NoCalTime
    /\ dateRes = NoResult /\ timeRes = Unset /\ dtRes = NoDateTimeResult
    /\ out = NoOut

\* a raw value is handed to Date::new_unchecked
InitDateUnchecked ==
    /\ scenario = "DateUnchecked" /\ pc = "raw"
    /\ rawDate \in U16 /\ rawTime = 0
    /\ calDate = NoCalDate /\ calTime = NoCalTime
    /\ other = NoOther
    /\ Blank

\* a raw value is handed to Time::new_unchecked
InitTimeUnchecked ==
    /\ scenario = "TimeUnchecked" /\ pc = "raw"
    /\ rawDate = 0 /\ rawTime \in U16
    /\ calDate = NoCalDate /\ calTime = NoCalTime
    /\ other = NoOther
    /\ Blank

\* two raw values are handed to date_time::DateTime::new
InitDateTime16 ==
    /\ scenario = "DateTime16" /\ pc = "raw"
    /\ rawDate \in DateRaws /\ rawTime \in TimeRaws
    /\ calDate = NoCalDate /\ calTime = NoCalTime
    /\ other = NoOther
    /\ Blank

\* two raw values are handed to date_time::DateTime::new: every raw date
\* with a time that is valid and with one that is not, and every raw time
\* with a date that is valid and with one that is not
InitDateTime16Each ==
    /\ scenario = "DateTime16" /\ pc = "raw"
    /\ \/ rawDate \in U16 /\ rawTime \in {21711, U16_MAX}
       \/ rawDate \in {19825, 0} /\ rawTime \in U16
    /\ calDate = NoCalDate /\ calTime = NoCalTime
    /\ other = NoOther
    /\ Blank

\* a time::Date and a time::Time are handed to
\* date_time::DateTime::from_date_time
InitDateTime16Cal ==
    /\ scenario = "DateTime16" /\ pc = "cal"
    /\ rawDate = 0 /\ rawTime = 0
    /\ calDate \in DateTimeDates /\ calTime \in DateTimeTimes
    /\ other = NoOther
    /\ Blank

\* the calendar times converted two at a time: every second of four minutes
PairTimes == [hour : {10, 23}, minute : {38, 59}, second : 0..59]

\* two time::Time are handed to Time::from_time, calTime and other
InitTimePair ==
    /\ scenario = "TimePair" /\ pc = "cal"
    /\ rawDate = 0 /\ rawTime = 0
    /\ calDate = NoCalDate /\ calTime \in PairTimes
    /\ other \in PairTimes
    /\ Blank

\* a loop over every raw value starts: rawDate or rawTime is the next value
\* handed to the constructor, out.n the number of values accepted so far
InitCount ==
    /\ scenario \in {"CountDate", "CountTime"} /\ pc = "raw"
    /\ rawDate = 0 /\ rawTime = 0
    /\ calDate = NoCalDate /\ calTime = NoCalTime
    /\ date = Unset /\ time = Unset /\ dt = NoDateTime
    /\ dateRes = NoResult /\ timeRes = Unset /\ dtRes = NoDateTimeResult
    /\ other = NoOther
    /\ out = [NoOut EXCEPT !.op = "count"]

\* the DateTimes of CmpDates and CmpTimes
CmpDateTimes == {date_time_new_unchecked(d, t) : d \in CmpDates, t \in CmpTimes}

\* two date_time::DateTime, dt from DateTime::new and other
InitDateTime16Cmp ==
    /\ scenario = "DateTime16Cmp" /\ pc = "new"
    /\ rawDate \in CmpDates /\ rawTime \in CmpTimes
    /\ dt = date_time_new(rawDate, rawTime)
    /\ date = Unset /\ time = Unset
    /\ other \in CmpDateTimes
    /\ calDate = NoCalDate /\ calTime = NoCalTime
    /\ dateRes = NoResult /\ timeRes = Unset /\ dtRes = NoDateTimeResult
    /\ out = NoOut

----------------------------------------------------------------------------
(* The calls.                                                              *)

\* let date = Date::new(rawDate)
DateNew ==
    /\ scenario \in {"Date", "New", "DateTime"} /\ pc = "raw" /\ date = Unset
    /\ date' = Date_new(rawDate)
    /\ UNCHANGED <<scenario, pc, rawDate, rawTime, time, dt, calDate, calTime,
                   dateRes, timeRes, dtRes>>
    /\ UNCHANGED <<other, out>>

\* let calDate = time::Date::from(date)
DateInto ==
    /\ scenario = "Date" /\ pc = "raw" /\ date.tag = "Some"
    /\ LET c == TimeDate_from(date.raw)
       IN IF c.tag = "Panic"
          THEN pc' = "panic" /\ calDate' = calDate
          ELSE pc' = "cal" /\ calDate' = c.v
    /\ UNCHANGED <<scenario, rawDate, rawTime, date, time, dt, calTime,
                   dateRes, timeRes, dtRes>>
    /\ UNCHANGED <<other, out>>

\* let dateRes = Date::from_date(calDate)
DateFromDate ==
    /\ scenario = "Date" /\ pc = "cal"
    /\ dateRes' = Date_from_date(calDate)
    /\ pc' = "done"
    /\ UNCHANGED <<scenario, rawDate, rawTime, date, time, dt, calDate, calTime,
                   timeRes, dtRes>>
    /\ UNCHANGED <<other, out>>

\* let time = Time::new(rawTime)
TimeNew ==
    /\ scenario \in {"Time", "New", "DateTime"} /\ pc = "raw" /\ time = Unset
    /\ time' = Time_new(rawTime)
    /\ UNCHANGED <<scenario, pc, rawDate, rawTime, date, dt, calDate, calTime,
                   dateRes, timeRes, dtRes>>
    /\ UNCHANGED <<other, out>>

\* let calTime = time::Time::from(time)
TimeInto ==
    /\ scenario = "Time" /\ pc = "raw" /\ time.tag = "Some"
    /\ LET c == TimeTime_from(time.raw)
       IN IF c.tag = "Panic"
          THEN pc' = "panic" /\ calTime' = calTime
          ELSE pc' = "cal" /\ calTime' = c.v
    /\ UNCHANGED <<scenario, rawDate, rawTime, date, time, dt, calDate,
                   dateRes, timeRes, dtRes>>
    /\ UNCHANGED <<other, out>>

\* let timeRes = Time::from_time(calTime)
TimeFromTime ==
    /\ scenario = "Time" /\ pc = "cal"
    /\ timeRes' = Some(Time_from_time(calTime))
    /\ pc' = "done"
    /\ UNCHANGED <<scenario, rawDate, rawTime, date, time, dt, calDate, calTime,
                   dateRes, dtRes>>
    /\ UNCHANGED <<other, out>>

\* let dt = DateTime::new(date, time)
DateTimeNew ==
    /\ scenario = "DateTime" /\ pc = "raw"
    /\ date.tag = "Some" /\ time.tag = "Some"
    /\ LET x == DateTime_new(date.raw, time.raw)
       IN dt' = [tag |-> "Some", date |-> x.date, time |-> x.time]
    /\ pc' = "new"
    /\ UNCHANGED <<scenario, rawDate, rawTime, date, time, calDate, calTime,
                   dateRes, timeRes, dtRes>>
    /\ UNCHANGED <<other, out>>

\* let (calDate, calTime) = PrimitiveDateTime::from(dt)
DateTimeInto ==
    /\ scenario = "DateTime" /\ pc = "new"
    /\ LET p == PrimitiveDateTime_from([date |-> dt.date, time |-> dt.time])
       IN IF p.tag = "Panic"
          THEN pc' = "panic" /\ UNCHANGED <<calDate, calTime>>
          ELSE pc' = "cal" /\ calDate' = p.date /\ calTime' = p.time
    /\ UNCHANGED <<scenario, rawDate, rawTime, date, time, dt,
                   dateRes, timeRes, dtRes>>
    /\ UNCHANGED <<other, out>>

\* let dtRes = DateTime::try_from(PrimitiveDateTime::new(calDate, calTime))
DateTimeFromDateTime ==
    /\ scenario = "DateTime" /\ pc = "cal"
    /\ dtRes' = DateTime_try_from([date |-> calDate, time |-> calTime])
    /\ pc' = "done"
    /\ UNCHANGED <<scenario, rawDate, rawTime, date, time, dt, calDate, calTime,
                   dateRes, timeRes>>
    /\ UNCHANGED <<other, out>>

----------------------------------------------------------------------------
(* Round trips.                                                            *)

\* C1: whenever Date::new(r) is Some(d), converting d to a time::Date does
\* not panic and Date::from_date of that time::Date is Ok of a Date whose
\* to_raw() is r.
C1_DateRoundTrip ==
    (scenario = "Date" /\ date.tag = "Some") =>
        /\ pc # "panic"
        /\ pc = "done" =>
            /\ dateRes.tag = "Ok"
            /\ Date_to_raw(dateRes.raw) = rawDate

\* 2000-02-29 (raw 10333) has gone through Date::new, time::Date::from and
\* Date::from_date.
C1_Witness ==
    /\ scenario = "Date" /\ pc = "done" /\ date.tag = "Some"
    /\ rawDate = 10333 /\ calDate = [year |-> 2000, month |-> 2, day |-> 29]
    /\ dateRes.tag = "Ok"

\* C2: whenever Time::new(r) is Some(t), converting t to a time::Time does
\* not panic and Time::from_time of that time::Time is a Time whose to_raw()
\* is r.
C2_TimeRoundTrip ==
    (scenario = "Time" /\ time.tag = "Some") =>
        /\ pc # "panic"
        /\ pc = "done" =>
            /\ timeRes.tag = "Some"
            /\ Time_to_raw(timeRes.raw) = rawTime

\* 10:38:30 (raw 21711) has gone through Time::new, time::Time::from and
\* Time::from_time.
C2_Witness ==
    /\ scenario = "Time" /\ pc = "done" /\ time.tag = "Some"
    /\ rawTime = 21711 /\ calTime = [hour |-> 10, minute |-> 38, second |-> 30]
    /\ timeRes.tag = "Some"

\* C3: for d from Date::new and t from Time::new, converting
\* DateTime::new(d, t) to a PrimitiveDateTime does not panic and converting
\* back gives Ok(DateTime::new(d, t)): both raw values are unchanged.
C3_DateTimeRoundTrip ==
    (scenario = "DateTime" /\ dt.tag = "Some") =>
        /\ pc # "panic"
        /\ dt.date = date.raw /\ dt.time = time.raw
        /\ pc = "done" =>
            /\ dtRes.tag = "Ok"
            /\ Date_to_raw(dtRes.date) = rawDate
            /\ Time_to_raw(dtRes.time) = rawTime
            /\ [date |-> dtRes.date, time |-> dtRes.time] = DateTime_new(date.raw, time.raw)

\* 2018-11-17 10:38:30 (raw 19825, 21711) has gone through the round trip.
C3_Witness ==
    /\ scenario = "DateTime" /\ pc = "done" /\ dt.tag = "Some"
    /\ rawDate = 19825 /\ rawTime = 21711
    /\ calDate = [year |-> 2018, month |-> 11, day |-> 17]
    /\ dtRes.tag = "Ok"

----------------------------------------------------------------------------
(* The validating constructors.                                            *)

\* the Gregorian calendar, as the claims state it
GregorianLeap(y) == (y % 4 = 0 /\ y % 100 # 0) \/ y % 400 = 0
GregorianDays(y, m) ==
    CASE m = 2 -> IF GregorianLeap(y) THEN 29 ELSE 28
      [] m \in {4, 6, 9, 11} -> 30
      [] OTHER -> 31

\* C4: with year = 1980 + (r >> 9), month = (r >> 5) & 0x0F and
\* day = r & 0x1F, Date::new(r) is Some if and only if 1 <= month <= 12 and
\* 1 <= day <= the days of that month in that year of the Gregorian
\* calendar, and None in every other case.
C4_DateNewAccepts ==
    (scenario = "Date" /\ date.tag # "Unset") =>
        LET year == 1980 + (rawDate \div 512)
            month == (rawDate \div 32) % 16
            day == rawDate % 32
            real == /\ 1 <= month /\ month <= 12
                    /\ 1 <= day /\ day <= GregorianDays(year, month)
        IN /\ date.tag \in {"Some", "None"}
           /\ date.tag = "Some" <=> real

\* Date::new has refused 2100-02-29 (raw 61533): 2100 is no leap year.
C4_Witness ==
    /\ scenario = "Date" /\ rawDate = 61533 /\ date = None

\* C5: with hour = r >> 11, minute = (r >> 5) & 0x3F and
\* double-seconds = r & 0x1F, Time::new(r) is Some if and only if
\* hour <= 23, minute <= 59 and double-seconds <= 29, and None in every
\* other case.
C5_TimeNewAccepts ==
    (scenario = "Time" /\ time.tag # "Unset") =>
        LET hour == rawTime \div 2048
            minute == (rawTime \div 32) % 64
            ds == rawTime % 32
        IN /\ time.tag \in {"Some", "None"}
           /\ time.tag = "Some" <=> (hour <= 23 /\ minute <= 59 /\ ds <= 29)

\* Time::new has refused a DoubleSeconds field of 30 (raw 30).
C5_Witness ==
    /\ scenario = "Time" /\ rawTime = 30 /\ time = None

\* C6: the validating constructors do not renormalize: whenever
\* Date::new(r) is Some(d), d.to_raw() = r, and whenever Time::new(r) is
\* Some(t), t.to_raw() = r.
C6_NewKeepsRaw ==
    scenario = "New" =>
        /\ date.tag = "Some" => Date_to_raw(date.raw) = rawDate
        /\ time.tag = "Some" => Time_to_raw(time.raw) = rawTime

\* Raw 19825 is a valid date (2018-11-17) and a valid time (09:43:34): both
\* constructors have accepted it.
C6_Witness ==
    /\ scenario = "New" /\ rawDate = 19825 /\ rawTime = 19825
    /\ date.tag = "Some" /\ time.tag = "Some"

----------------------------------------------------------------------------
(* The conversions from the calendar types.                                *)

\* C7: Date::from_date is Err of kind Negative if and only if the year is
\* below 1980, Err of kind Overflow if and only if the year is 2108 or
\* above, and Ok for every year in 1980..=2107.
C7_FromDateRange ==
    (scenario = "Date" /\ pc = "done") =>
        /\ dateRes.tag \in {"Ok", "Err"}
        /\ (dateRes.tag = "Err" /\ dateRes.kind = "Negative") <=> calDate.year < 1980
        /\ (dateRes.tag = "Err" /\ dateRes.kind = "Overflow") <=> calDate.year >= 2108
        /\ dateRes.tag = "Ok" <=> (1980 <= calDate.year /\ calDate.year <= 2107)
        /\ dateRes.tag = "Err" => dateRes.kind \in {"Negative", "Overflow"}

\* Date::from_date has refused 2108-01-01 with Overflow.
C7_Witness ==
    /\ scenario = "Date" /\ pc = "done"
    /\ calDate = [year |-> 2108, month |-> 1, day |-> 1]
    /\ dateRes = Err("Overflow")

\* C8: for a calendar date (y, m, d) with 1980 <= y <= 2107,
\* Date::from_date is the Date of raw value ((y - 1980) << 9) | (m << 5) | d;
\* 1980-01-01 gives Date::MIN (33) and 2107-12-31 gives Date::MAX (65439).
C8_FromDatePacks ==
    (scenario = "Date" /\ pc = "done"
        /\ 1980 <= calDate.year /\ calDate.year <= 2107) =>
        /\ dateRes.tag = "Ok"
        /\ Date_to_raw(dateRes.raw) =
               (calDate.year - 1980) * 512 + calDate.month * 32 + calDate.day
        /\ calDate = [year |-> 1980, month |-> 1, day |-> 1]
               => dateRes.raw = Date_MIN /\ Date_MIN = 33
        /\ calDate = [year |-> 2107, month |-> 12, day |-> 31]
               => dateRes.raw = Date_MAX /\ Date_MAX = 65439

\* Date::from_date has packed 2107-12-31, handed to it as a calendar date.
C8_Witness ==
    /\ scenario = "Date" /\ pc = "done" /\ date = Unset
    /\ calDate = [year |-> 2107, month |-> 12, day |-> 31]
    /\ dateRes.tag = "Ok"

\* C9: Time::from_time never fails: for a calendar time (h, m, s) it is the
\* Time of raw value (h << 11) | (m << 5) | min(s / 2, 29); 23:59:58 and
\* 23:59:59 both give Time::MAX (49021) and 00:00:01 gives Time::MIN (0).
C9_FromTimePacks ==
    (scenario = "Time" /\ pc = "done") =>
        LET half == calTime.second \div 2
            ds == IF half < 29 THEN half ELSE 29
        IN /\ timeRes.tag = "Some"
           /\ Time_to_raw(timeRes.raw) = calTime.hour * 2048 + calTime.minute * 32 + ds
           /\ (calTime.hour = 23 /\ calTime.minute = 59 /\ calTime.second \in {58, 59})
                  => timeRes.raw = Time_MAX /\ Time_MAX = 49021
           /\ calTime = [hour |-> 0, minute |-> 0, second |-> 1]
                  => timeRes.raw = Time_MIN /\ Time_MIN = 0

\* Time::from_time has converted 23:59:59, handed to it as a calendar time.
C9_Witness ==
    /\ scenario = "Time" /\ pc = "done" /\ time = Unset
    /\ calTime = [hour |-> 23, minute |-> 59, second |-> 59]
    /\ timeRes.tag = "Some"

\* the fields (y, m, d, h, mi, s) of a calendar date and time
Fields(d, t) == <<d.year, d.month, d.day, t.hour, t.minute, t.second>>

\* a <= b in the lexicographic order of six fields: the calendar order
NotAfter(a, b) ==
    \/ a = b
    \/ \E i \in 1..6 : a[i] < b[i] /\ \A j \in 1..(i - 1) : a[j] = b[j]

\* C10: DateTime::from_date_time is Ok if and only if the input lies in
\* [1980-01-01 00:00:00, 2107-12-31 23:59:59]; the time of day never causes
\* a failure, and 2107-12-31 23:59:59 is accepted and gives DateTime::MAX.
C10_FromDateTimeWindow ==
    (scenario = "DateTime" /\ pc = "done") =>
        LET first == <<1980, 1, 1, 0, 0, 0>>
            last == <<2107, 12, 31, 23, 59, 59>>
            at == Fields(calDate, calTime)
        IN /\ dtRes.tag \in {"Ok", "Err"}
           /\ dtRes.tag = "Ok" <=> (NotAfter(first, at) /\ NotAfter(at, last))
           /\ dtRes.tag = "Ok" <=> (1980 <= calDate.year /\ calDate.year <= 2107)
           /\ at = last =>
                  [date |-> dtRes.date, time |-> dtRes.time] = DateTime_MAX
           /\ at = last => Time_second(dtRes.time) = 58

\* DateTime::from_date_time has accepted 2107-12-31 23:59:59.
C10_Witness ==
    /\ scenario = "DateTime" /\ pc = "done" /\ dt = NoDateTime
    /\ calDate = [year |-> 2107, month |-> 12, day |-> 31]
    /\ calTime = [hour |-> 23, minute |-> 59, second |-> 59]
    /\ dtRes.tag = "Ok"

----------------------------------------------------------------------------
(* Errors.                                                                 *)

\* C11: whenever Date::from_date fails on the date part with kind Negative
\* (Overflow), DateTime::from_date_time fails with kind Negative (Overflow),
\* whatever the time of day: the kind is unchanged and no DateTime is
\* returned in place of the error.
C11_ErrorPropagates ==
    (scenario = "DateTime" /\ pc = "done") =>
        LET r == Date_from_date(calDate)
        IN /\ r.tag = "Err" =>
                /\ dtRes.tag = "Err"
                /\ dtRes.kind = r.kind
                /\ dtRes.kind \in {"Negative", "Overflow"}
           /\ calDate.year < 1980 => (dtRes.tag = "Err" /\ dtRes.kind = "Negative")
           /\ calDate.year > 2107 => (dtRes.tag = "Err" /\ dtRes.kind = "Overflow")
           /\ dtRes.tag = "Err" => r.tag = "Err"

\* DateTime::from_date_time has refused 1979-12-31 23:59:59 with Negative.
C11_Witness ==
    /\ scenario = "DateTime" /\ pc = "done"
    /\ calDate = [year |-> 1979, month |-> 12, day |-> 31]
    /\ calTime = [hour |-> 23, minute |-> 59, second |-> 59]
    /\ dtRes.tag = "Err" /\ dtRes.kind = "Negative"

----------------------------------------------------------------------------
(* Validity.                                                               *)

\* the raw value decodes to a day that exists in the Gregorian calendar
RealDate(raw) ==
    LET year == 1980 + (raw \div 512)
        month == (raw \div 32) % 16
        day == raw % 32
    IN /\ 1 <= month /\ month <= 12
       /\ 1 <= day /\ day <= GregorianDays(year, month)

\* the raw value decodes to hour <= 23, minute <= 59 and double-seconds <= 29
RealTime(raw) ==
    /\ raw \div 2048 <= 23
    /\ (raw \div 32) % 64 <= 59
    /\ raw % 32 <= 29

\* C12: every Date returned by Date::new or Date::from_date, and Date::MIN,
\* Date::MAX and Date::default(), decodes to a day that exists; every Time
\* returned by Time::new or Time::from_time, and Time::MIN, Time::MAX and
\* Time::default(), decodes to hour <= 23, minute <= 59, double-seconds <= 29;
\* the validating constructor returns Some for the raw value of each.
\* (The constants are the values date and time hold in the scenario "Const".)
C12_SafeValuesValid ==
    /\ date.tag = "Some" =>
           (RealDate(Date_to_raw(date.raw)) /\ Date_new(Date_to_raw(date.raw)).tag = "Some")
    /\ dateRes.tag = "Ok" =>
           (RealDate(Date_to_raw(dateRes.raw)) /\ Date_new(Date_to_raw(dateRes.raw)).tag = "Some")
    /\ time.tag = "Some" =>
           (RealTime(Time_to_raw(time.raw)) /\ Time_new(Time_to_raw(time.raw)).tag = "Some")
    /\ timeRes.tag = "Some" =>
           (RealTime(Time_to_raw(timeRes.raw)) /\ Time_new(Time_to_raw(timeRes.raw)).tag = "Some")
    /\ scenario = "Const" => (date.tag = "Some" /\ time.tag = "Some")

\* Time::from_time has converted 12:34:59, handed to it as a calendar time.
C12_Witness ==
    /\ scenario = "Time" /\ pc = "done" /\ time = Unset
    /\ calTime = [hour |-> 12, minute |-> 34, second |-> 59]
    /\ timeRes.tag = "Some"

\* let out = date.cmp(&other)
DateCmp ==
    /\ scenario = "DateCmp" /\ out.op = "-" /\ date.tag = "Some"
    /\ out' = [NoOut EXCEPT !.op = "cmp", !.s = Date_cmp(date.raw, other.date)]
    /\ UNCHANGED <<scenario, pc, rawDate, rawTime, date, time, dt, calDate, calTime,
                   dateRes, timeRes, dtRes, other>>

\* let out = time.cmp(&other)
TimeCmp ==
    /\ scenario = "TimeCmp" /\ out.op = "-" /\ time.tag = "Some"
    /\ out' = [NoOut EXCEPT !.op = "cmp", !.s = Time_cmp(time.raw, other.time)]
    /\ UNCHANGED <<scenario, pc, rawDate, rawTime, date, time, dt, calDate, calTime,
                   dateRes, timeRes, dtRes, other>>

\* let out = dt.cmp(&other)
DateTimeCmp ==
    /\ scenario = "DateTimeCmp" /\ out.op = "-"
    /\ date.tag = "Some" /\ time.tag = "Some"
    /\ out' = [NoOut EXCEPT !.op = "cmp",
                            !.s = DateTime_cmp([date |-> dt.date, time |-> dt.time], other)]
    /\ UNCHANGED <<scenario, pc, rawDate, rawTime, date, time, dt, calDate, calTime,
                   dateRes, timeRes, dtRes, other>>

\* what the accessors of a DateTime return, the month as its number
DateFields(x) == <<DateTime_year(x), DateTime_month(x).raw, DateTime_day(x)>>
TimeFields(x) == <<DateTime_hour(x), DateTime_minute(x), DateTime_second(x)>>

\* C13: Date::MIN and Date::MAX are valid and every Date accepted by Date::new
\* compares not less than Date::MIN and not greater than Date::MAX; the same
\* for Time with Time::MIN and Time::MAX; hence every valid DateTime compares
\* between DateTime::MIN, 1980-01-01 00:00:00, and DateTime::MAX,
\* 2107-12-31 23:59:58.
C13_RangeLimits ==
    /\ (scenario = "DateCmp" /\ rawDate \in {Date_MIN, Date_MAX}) => date.tag = "Some"
    /\ (scenario = "TimeCmp" /\ rawTime \in {Time_MIN, Time_MAX}) => time.tag = "Some"
    /\ (scenario = "DateTimeCmp" /\ other = DateTime_MIN) =>
          /\ other = DateTime_new(Date_MIN, Time_MIN)
          /\ DateFields(other) \o TimeFields(other) = <<1980, 1, 1, 0, 0, 0>>
    /\ (scenario = "DateTimeCmp" /\ other = DateTime_MAX) =>
          /\ other = DateTime_new(Date_MAX, Time_MAX)
          /\ DateFields(other) \o TimeFields(other) = <<2107, 12, 31, 23, 59, 58>>
    /\ scenario = "DateTimeCmp" => (date.tag = "Some" /\ time.tag = "Some")
    /\ (scenario = "DateCmp" /\ out.op = "cmp") =>
          /\ other.date = Date_MIN => out.s \in {"Greater", "Equal"}
          /\ other.date = Date_MAX => out.s \in {"Less", "Equal"}
          /\ out.s = "Equal" <=> date.raw = other.date
    /\ (scenario = "TimeCmp" /\ out.op = "cmp") =>
          /\ other.time = Time_MIN => out.s \in {"Greater", "Equal"}
          /\ other.time = Time_MAX => out.s \in {"Less", "Equal"}
          /\ out.s = "Equal" <=> time.raw = other.time
    /\ (scenario = "DateTimeCmp" /\ out.op = "cmp") =>
          /\ other = DateTime_MIN => out.s \in {"Greater", "Equal"}
          /\ other = DateTime_MAX => out.s \in {"Less", "Equal"}
          /\ out.s = "Equal" <=> (dt.date = other.date /\ dt.time = other.time)

C13_Witness ==
    /\ scenario = "DateTimeCmp" /\ out.op = "cmp"
    /\ other = DateTime_MAX /\ out.s = "Less"
    /\ dt.date = other.date /\ dt.time = Time_MIN

\* the lexicographic comparison of two tuples of numbers of the same length
LexCmp(x, y) ==
    IF x = y THEN "Equal"
    ELSE LET i == CHOOSE k \in 1..Len(x) :
                      x[k] # y[k] /\ \A j \in 1..(k - 1) : x[j] = y[j]
         IN IF x[i] < y[i] THEN "Less" ELSE "Greater"

\* the order of two numbers
NumCmp(a, b) == IF a < b THEN "Less" ELSE IF a = b THEN "Equal" ELSE "Greater"

\* C14: for two valid Dates a and b, a.cmp(b) is the lexicographic comparison
\* of (year, month, day) of a with that of b, and it is also the order of the
\* two raw values.
C14_DateOrdering ==
    (scenario = "DateCmp" /\ out.op = "cmp") =>
        LET a == date.raw
            b == other.date
        IN /\ out.s = LexCmp(<<Date_year(a), Date_month(a).raw, Date_day(a)>>,
                             <<Date_year(b), Date_month(b).raw, Date_day(b)>>)
           /\ out.s = NumCmp(rawDate, b)

C14_Witness ==
    /\ scenario = "DateCmp" /\ out.op = "cmp" /\ out.s = "Less"
    /\ Date_year(date.raw) = Date_year(other.date)
    /\ Date_month(date.raw).raw < Date_month(other.date).raw
    /\ Date_day(date.raw) > Date_day(other.date)

\* C15: for two valid Times a and b, a.cmp(b) is the lexicographic comparison
\* of (hour, minute, second) of a with that of b.
C15_TimeOrdering ==
    (scenario = "TimeCmp" /\ out.op = "cmp") =>
        LET a == time.raw
            b == other.time
        IN out.s = LexCmp(<<Time_hour(a), Time_minute(a), Time_second(a)>>,
                          <<Time_hour(b), Time_minute(b), Time_second(b)>>)

C15_Witness ==
    /\ scenario = "TimeCmp" /\ out.op = "cmp" /\ out.s = "Greater"
    /\ Time_hour(time.raw) > Time_hour(other.time)
    /\ Time_minute(time.raw) < Time_minute(other.time)
    /\ Time_second(time.raw) < Time_second(other.time)

\* C16: for two valid DateTimes a and b, a.cmp(b) is the lexicographic
\* comparison of (year, month, day, hour, minute, second); an earlier date
\* makes a less than b whatever the times are, and the times decide exactly
\* when the dates are equal.
C16_DateTimeOrdering ==
    (scenario = "DateTimeCmp" /\ out.op = "cmp") =>
        LET a == [date |-> dt.date, time |-> dt.time]
            b == other
        IN /\ out.s = LexCmp(DateFields(a) \o TimeFields(a),
                             DateFields(b) \o TimeFields(b))
           /\ LexCmp(DateFields(a), DateFields(b)) = "Less" => out.s = "Less"
           /\ LexCmp(DateFields(a), DateFields(b)) = "Greater" => out.s = "Greater"
           /\ DateTime_date(a) = DateTime_date(b) =>
                 out.s = LexCmp(TimeFields(a), TimeFields(b))

C16_Witness ==
    /\ scenario = "DateTimeCmp" /\ out.op = "cmp" /\ out.s = "Less"
    /\ DateFields(dt) = <<2018, 10, 18>> /\ DateFields(other) = <<2018, 11, 17>>
    /\ TimeFields(dt) = <<10, 39, 30>> /\ TimeFields(other) = <<9, 38, 28>>

\* a bool as it is kept in out.s
Bool(b) == IF b THEN "true" ELSE "false"

\* let date = unsafe { Date::new_unchecked(rawDate) }
DateNewUnchecked ==
    /\ scenario = "DateUnchecked" /\ pc = "raw" /\ date = Unset
    /\ date' = Some(Date_new_unchecked(rawDate))
    /\ UNCHANGED <<scenario, pc, rawDate, rawTime, time, dt, calDate, calTime,
                   dateRes, timeRes, dtRes, other, out>>

\* let out = date.is_valid(), for the Date of Date::new_unchecked or of
\* Date::new, or for the Date of Date::from_date
DateIsValid ==
    /\ out.op = "-"
    /\ \/ /\ scenario \in {"DateUnchecked", "Date"} /\ pc = "raw" /\ date.tag = "Some"
          /\ out' = [NoOut EXCEPT !.op = "is_valid", !.s = Bool(Date_is_valid(date.raw))]
       \/ /\ scenario = "Date" /\ pc = "done" /\ dateRes.tag = "Ok"
          /\ out' = [NoOut EXCEPT !.op = "is_valid",
                                  !.s = Bool(Date_is_valid(dateRes.raw))]
    /\ UNCHANGED <<scenario, pc, rawDate, rawTime, date, time, dt, calDate, calTime,
                   dateRes, timeRes, dtRes, other>>

\* C17: Date::new_unchecked(r).is_valid() is true exactly when Date::new(r)
\* is Some, that is when r decodes to a day of the calendar: it is false for
\* a day field of 0, for day 30 in February and for a month field of 0 or
\* 13..=15; it is true for every Date that Date::new or Date::from_date
\* returns.
C17_DateIsValid ==
    out.op = "is_valid" =>
        /\ (scenario = "DateUnchecked") =>
              LET month == (rawDate \div 32) % 16
                  day == rawDate % 32
              IN /\ date.raw = rawDate
                 /\ out.s = Bool(Date_new(rawDate).tag = "Some")
                 /\ out.s = Bool(RealDate(rawDate))
                 /\ day = 0 => out.s = "false"
                 /\ (month = 2 /\ day = 30) => out.s = "false"
                 /\ month \in {0, 13, 14, 15} => out.s = "false"
        /\ (scenario = "Date") => out.s = "true"

C17_Witness ==
    /\ scenario = "DateUnchecked" /\ out.op = "is_valid" /\ out.s = "false"
    /\ (rawDate \div 32) % 16 = 2 /\ rawDate % 32 = 30

\* let time = unsafe { Time::new_unchecked(rawTime) }
TimeNewUnchecked ==
    /\ scenario = "TimeUnchecked" /\ pc = "raw" /\ time = Unset
    /\ time' = Some(Time_new_unchecked(rawTime))
    /\ UNCHANGED <<scenario, pc, rawDate, rawTime, date, dt, calDate, calTime,
                   dateRes, timeRes, dtRes, other, out>>

\* let out = time.is_valid(), for the Time of Time::new_unchecked or of
\* Time::new, or for the Time of Time::from_time
TimeIsValid ==
    /\ out.op = "-"
    /\ \/ /\ scenario \in {"TimeUnchecked", "Time"} /\ pc = "raw" /\ time.tag = "Some"
          /\ out' = [NoOut EXCEPT !.op = "is_valid", !.s = Bool(Time_is_valid(time.raw))]
       \/ /\ scenario = "Time" /\ pc = "done" /\ timeRes.tag = "Some"
          /\ out' = [NoOut EXCEPT !.op = "is_valid",
                                  !.s = Bool(Time_is_valid(timeRes.raw))]
    /\ UNCHANGED <<scenario, pc, rawDate, rawTime, date, time, dt, calDate, calTime,
                   dateRes, timeRes, dtRes, other>>

\* C18: Time::new_unchecked(r).is_valid() is false when the double-seconds
\* field of r is 30..=31, its minute field 60..=63 or its hour field 24..=31,
\* and true otherwise; it is true for every Time that Time::new or
\* Time::from_time returns.
C18_TimeIsValid ==
    out.op = "is_valid" =>
        /\ (scenario = "TimeUnchecked") =>
              LET hour == rawTime \div 2048
                  minute == (rawTime \div 32) % 64
                  ds == rawTime % 32
              IN /\ time.raw = rawTime
                 /\ ds \in 30..31 => out.s = "false"
                 /\ minute \in 60..63 => out.s = "false"
                 /\ hour \in 24..31 => out.s = "false"
                 /\ out.s = Bool(RealTime(rawTime))
        /\ (scenario = "Time") => out.s = "true"

C18_Witness ==
    /\ scenario = "TimeUnchecked" /\ out.op = "is_valid" /\ out.s = "false"
    /\ rawTime \div 2048 = 23 /\ (rawTime \div 32) % 64 = 59 /\ rawTime % 32 = 30

\* the Date an accessor is called on: the one of Date::new_unchecked or of
\* Date::new, or the one of Date::from_date once it has returned
HasDate ==
    /\ scenario \in {"DateUnchecked", "Date"}
    /\ \/ pc = "raw" /\ date.tag = "Some"
       \/ pc = "done" /\ dateRes.tag = "Ok"
TheDate == IF pc = "done" THEN dateRes.raw ELSE date.raw

\* the Time an accessor is called on: the one of Time::new_unchecked or of
\* Time::new, or the one of Time::from_time once it has returned
HasTime ==
    /\ scenario \in {"TimeUnchecked", "Time"}
    /\ \/ pc = "raw" /\ time.tag = "Some"
       \/ pc = "done" /\ timeRes.tag = "Some"
TheTime == IF pc = "done" THEN timeRes.raw ELSE time.raw

\* let out = date.year(): the year, or the overflow of the u16 addition
DateYear ==
    /\ HasDate /\ out.op = "-"
    /\ LET y == Date_year(TheDate)
       IN out' = IF y <= U16_MAX
                 THEN [NoOut EXCEPT !.op = "year", !.s = "value", !.n = y]
                 ELSE [NoOut EXCEPT !.op = "year", !.s = "panic"]
    /\ UNCHANGED <<scenario, pc, rawDate, rawTime, date, time, dt, calDate, calTime,
                   dateRes, timeRes, dtRes, other>>

\* let out = time.hour(): the hour, or the panic of the `expect`
TimeHour ==
    /\ HasTime /\ out.op = "-"
    /\ LET h == Time_hour(TheTime)
       IN out' = IF h <= U8_MAX
                 THEN [NoOut EXCEPT !.op = "hour", !.s = "value", !.n = h]
                 ELSE [NoOut EXCEPT !.op = "hour", !.s = "panic"]
    /\ UNCHANGED <<scenario, pc, rawDate, rawTime, date, time, dt, calDate, calTime,
                   dateRes, timeRes, dtRes, other>>

\* let out = time.minute(): the minute, or the panic of the `expect`
TimeMinute ==
    /\ HasTime /\ out.op = "-"
    /\ LET m == Time_minute(TheTime)
       IN out' = IF m <= U8_MAX
                 THEN [NoOut EXCEPT !.op = "minute", !.s = "value", !.n = m]
                 ELSE [NoOut EXCEPT !.op = "minute", !.s = "panic"]
    /\ UNCHANGED <<scenario, pc, rawDate, rawTime, date, time, dt, calDate, calTime,
                   dateRes, timeRes, dtRes, other>>

\* let out = time.second(): the second, or the panic of the `expect`
TimeSecond ==
    /\ HasTime /\ out.op = "-"
    /\ LET sec == Time_second(TheTime)
       IN out' = IF sec <= U8_MAX
                 THEN [NoOut EXCEPT !.op = "second", !.s = "value", !.n = sec]
                 ELSE [NoOut EXCEPT !.op = "second", !.s = "panic"]
    /\ UNCHANGED <<scenario, pc, rawDate, rawTime, date, time, dt, calDate, calTime,
                   dateRes, timeRes, dtRes, other>>

\* let out = date.month(), for the Date of Date::new_unchecked or of Date::new:
\* the Month, or the panic of the second `expect`
DateMonth ==
    /\ HasDate /\ out.op = "-"
    /\ LET m == Date_month(TheDate)
       IN out' = IF m.tag = "Some"
                 THEN [NoOut EXCEPT !.op = "month", !.s = "value", !.n = m.raw]
                 ELSE [NoOut EXCEPT !.op = "month", !.s = "panic"]
    /\ UNCHANGED <<scenario, pc, rawDate, rawTime, date, time, dt, calDate, calTime,
                   dateRes, timeRes, dtRes, other>>

\* let out = date.day(): the day, or the panic of the `expect` when the
\* masked value does not fit a u8
DateDay ==
    /\ HasDate /\ out.op = "-"
    /\ LET d == Date_day(TheDate)
       IN out' = IF d <= U8_MAX
                 THEN [NoOut EXCEPT !.op = "day", !.s = "value", !.n = d]
                 ELSE [NoOut EXCEPT !.op = "day", !.s = "panic"]
    /\ UNCHANGED <<scenario, pc, rawDate, rawTime, date, time, dt, calDate, calTime,
                   dateRes, timeRes, dtRes, other>>

\* C19: Date::month() and Date::day() return a value, and do not panic, for
\* the Date of Date::new_unchecked(r) for every raw u16 r and for every Date
\* that Date::new returns.
C19_AccessorsNeverPanic ==
    out.op \in {"month", "day"} => out.s = "value"

\* let dt = date_time::DateTime::new(rawDate, rawTime)
DateTime16New ==
    /\ scenario = "DateTime16" /\ pc = "raw"
    /\ dt' = date_time_new(rawDate, rawTime)
    /\ pc' = "new"
    /\ UNCHANGED <<scenario, rawDate, rawTime, date, time, calDate, calTime,
                   dateRes, timeRes, dtRes, other, out>>

\* let out = format!("{}", date), for the Date of Date::new
DateDisplay ==
    /\ scenario = "Date" /\ pc = "raw" /\ date.tag = "Some" /\ out.op = "-"
    /\ out' = IF Date_month(date.raw).tag = "None" \/ Date_day(date.raw) > U8_MAX
              THEN [NoOut EXCEPT !.op = "fmt", !.s = "panic"]
              ELSE [NoOut EXCEPT !.op = "fmt", !.s = "value", !.text = Date_fmt(date.raw)]
    /\ UNCHANGED <<scenario, pc, rawDate, rawTime, date, time, dt, calDate, calTime,
                   dateRes, timeRes, dtRes, other>>

\* let out = format!("{}", time), for the Time of Time::new
TimeDisplay ==
    /\ scenario = "Time" /\ pc = "raw" /\ time.tag = "Some" /\ out.op = "-"
    /\ out' = IF \/ Time_hour(time.raw) > U8_MAX \/ Time_minute(time.raw) > U8_MAX
                 \/ Time_second(time.raw) > U8_MAX
              THEN [NoOut EXCEPT !.op = "fmt", !.s = "panic"]
              ELSE [NoOut EXCEPT !.op = "fmt", !.s = "value", !.text = Time_fmt(time.raw)]
    /\ UNCHANGED <<scenario, pc, rawDate, rawTime, date, time, dt, calDate, calTime,
                   dateRes, timeRes, dtRes, other>>

\* let out = format!("{}", dt), for the DateTime of date_time::DateTime::new
DateTimeDisplay ==
    /\ scenario = "DateTime16" /\ pc = "new" /\ dt.tag = "Some" /\ out.op = "-"
    /\ LET x == [date |-> dt.date, time |-> dt.time]
       IN out' = IF \/ date_time_month(x).tag = "None" \/ date_time_day(x) > U8_MAX
                    \/ date_time_hour(x) > U8_MAX \/ date_time_minute(x) > U8_MAX
                    \/ date_time_second(x) > U8_MAX
                 THEN [NoOut EXCEPT !.op = "fmt", !.s = "panic"]
                 ELSE [NoOut EXCEPT !.op = "fmt", !.s = "value",
                                    !.text = date_time_fmt(x)]
    /\ UNCHANGED <<scenario, pc, rawDate, rawTime, date, time, dt, calDate, calTime,
                   dateRes, timeRes, dtRes, other>>

\* the number that a text of decimal digits writes, -1 if it is not one
RECURSIVE Number(_)
Number(text) ==
    IF text = <<>> THEN -1
    ELSE LET c == text[Len(text)]
             rest == SubSeq(text, 1, Len(text) - 1)
         IN IF \A k \in 1..10 : DigitChars[k] # c THEN -1
            ELSE LET v == (CHOOSE k \in 1..10 : DigitChars[k] = c) - 1
                 IN IF rest = <<>> THEN v
                    ELSE IF Number(rest) < 0 THEN -1 ELSE 10 * Number(rest) + v

\* text is YYYY-MM-DD for the fields of the raw date
IsDateText(text, raw) ==
    /\ Len(text) = 10 /\ text[5] = "-" /\ text[8] = "-"
    /\ Number(SubSeq(text, 1, 4)) = 1980 + (raw \div 512)
    /\ Number(SubSeq(text, 6, 7)) = (raw \div 32) % 16
    /\ Number(SubSeq(text, 9, 10)) = raw % 32

\* text is HH:MM:SS for the fields of the raw time, the seconds even and
\* at most 58
IsTimeText(text, raw) ==
    /\ Len(text) = 8 /\ text[3] = ":" /\ text[6] = ":"
    /\ Number(SubSeq(text, 1, 2)) = raw \div 2048
    /\ Number(SubSeq(text, 4, 5)) = (raw \div 32) % 64
    /\ Number(SubSeq(text, 7, 8)) = 2 * (raw % 32)
    /\ Number(SubSeq(text, 7, 8)) % 2 = 0 /\ Number(SubSeq(text, 7, 8)) <= 58

\* C20: a valid Date is displayed as the 10 characters YYYY-MM-DD, a valid
\* Time as the 8 characters HH:MM:SS, every field in decimal with zeros on
\* the left, and a valid DateTime as the text of its date, one space and the
\* text of its time, 19 characters; the seconds are even and at most 58.
C20_CanonicalDisplay ==
    out.op = "fmt" =>
        /\ out.s = "value"
        /\ scenario = "Date" => IsDateText(out.text, date.raw)
        /\ scenario = "Time" => IsTimeText(out.text, time.raw)
        /\ scenario = "DateTime16" =>
              /\ Len(out.text) = 19 /\ out.text[11] = " "
              /\ IsDateText(SubSeq(out.text, 1, 10), dt.date)
              /\ IsTimeText(SubSeq(out.text, 12, 19), dt.time)
              /\ out.text = Date_fmt(dt.date) \o <<" ">> \o Time_fmt(dt.time)

C20_Witness ==
    /\ scenario = "DateTime16" /\ out.op = "fmt"
    /\ out.text = <<"1", "9", "8", "0", "-", "0", "1", "-", "0", "1", " ",
                     "0", "0", ":", "0", "0", ":", "0", "0">>

----------------------------------------------------------------------------
(* Packing from end to end.                                                *)

\* C21: for a calendar date (y, m, d) with 1980 <= y <= 2107 and a calendar
\* time (h, min, s), DateTime::from_date_time is Ok with the date raw
\* ((y - 1980) << 9) | (m << 5) | d and the time raw
\* (h << 11) | (min << 5) | (s / 2); 2018-11-17 10:38:30 gives 19825 and
\* 21711, 2002-11-26 19:25:00 gives 11642 and 39712.
C21_FromDateTimePacks ==
    (scenario = "DateTime" /\ pc = "done"
        /\ 1980 <= calDate.year /\ calDate.year <= 2107) =>
        /\ dtRes.tag = "Ok"
        /\ dtRes.date = (calDate.year - 1980) * 512 + calDate.month * 32 + calDate.day
        /\ dtRes.time = calTime.hour * 2048 + calTime.minute * 32
                            + (calTime.second \div 2)
        /\ (/\ calDate = [year |-> 2018, month |-> 11, day |-> 17]
            /\ calTime = [hour |-> 10, minute |-> 38, second |-> 30])
               => (dtRes.date = 19825 /\ dtRes.time = 21711)
        /\ (/\ calDate = [year |-> 2002, month |-> 11, day |-> 26]
            /\ calTime = [hour |-> 19, minute |-> 25, second |-> 0])
               => (dtRes.date = 11642 /\ dtRes.time = 39712)

\* DateTime::from_date_time has packed 2002-11-26 19:25:00, handed to it as
\* a calendar date and time.
C21_Witness ==
    /\ scenario = "DateTime" /\ pc = "done" /\ dt = NoDateTime
    /\ calDate = [year |-> 2002, month |-> 11, day |-> 26]
    /\ calTime = [hour |-> 19, minute |-> 25, second |-> 0]
    /\ dtRes.tag = "Ok" /\ dtRes.date = 11642 /\ dtRes.time = 39712

----------------------------------------------------------------------------
(* The DateTime of the module date_time against Date, Time and DateTime.   *)

\* let dtRes = date_time::DateTime::from_date_time(calDate, calTime)
DateTime16FromDateTime ==
    /\ scenario = "DateTime16" /\ pc = "cal"
    /\ dtRes' = date_time_from_date_time(calDate, calTime)
    /\ pc' = "done"
    /\ UNCHANGED <<scenario, rawDate, rawTime, date, time, dt, calDate, calTime,
                   dateRes, timeRes, other, out>>

\* C22: date_time::DateTime::new(d, t) is Some exactly when Date::new(d) and
\* Time::new(t) are both Some, and then date() is d and time() is t;
\* date_time::DateTime::from_date_time returns what the DateTime::from_date_time
\* of Date and Time returns: Ok with the same two raw values, or Err with the
\* same kind, Negative or Overflow.
C22_LegacyEquivalent ==
    /\ (scenario = "DateTime16" /\ pc = "new") =>
          /\ dt.tag \in {"Some", "None"}
          /\ dt.tag = "Some" <=>
                (Date_new(rawDate).tag = "Some" /\ Time_new(rawTime).tag = "Some")
          /\ dt.tag = "Some" =>
                /\ date_time_date(dt) = rawDate /\ date_time_time(dt) = rawTime
                /\ date_time_date(dt) = Date_to_raw(Date_new(rawDate).raw)
                /\ date_time_time(dt) = Time_to_raw(Time_new(rawTime).raw)
    /\ (scenario = "DateTime16" /\ pc = "done") =>
          LET c == DateTime_from_date_time(calDate, calTime)
          IN /\ dtRes.tag \in {"Ok", "Err"} /\ dtRes.tag = c.tag
             /\ dtRes.tag = "Ok" =>
                   /\ date_time_date(dtRes) = Date_to_raw(DateTime_date(c))
                   /\ date_time_time(dtRes) = Time_to_raw(DateTime_time(c))
             /\ dtRes.tag = "Err" =>
                   (dtRes.kind = c.kind /\ dtRes.kind \in {"Negative", "Overflow"})

\* the last day that both from_date_time accept has been converted
C22_Witness ==
    /\ scenario = "DateTime16" /\ pc = "done"
    /\ calDate = [year |-> 2107, month |-> 12, day |-> 31]
    /\ calTime = [hour |-> 23, minute |-> 59, second |-> 59]
    /\ dtRes.tag = "Ok" /\ dtRes.date = Date_MAX /\ dtRes.time = Time_MAX

----------------------------------------------------------------------------
(* Leap years.                                                             *)

\* C23: Date::new accepts a raw value that encodes February 29 of the year
\* Y, 1980 <= Y <= 2107, exactly when Y is divisible by 4 and is not 2100:
\* 2000-02-29 is accepted, 2100-02-29 is rejected; February 30 and 31 are
\* rejected for every year.
C23_LeapYears ==
    (scenario = "Date" /\ pc = "raw" /\ date # Unset
        /\ (rawDate \div 32) % 16 = 2) =>
        LET Y == 1980 + (rawDate \div 512)
            day == rawDate % 32
        IN /\ 1980 <= Y /\ Y <= 2107
           /\ day = 29 => (date.tag = "Some" <=> (Y % 4 = 0 /\ Y # 2100))
           /\ (Y = 2000 /\ day = 29) => date = Some(rawDate)
           /\ (Y = 2100 /\ day = 29) => date = None
           /\ day \in {30, 31} => date = None

\* Date::new has accepted 2000-02-29
C23_Witness ==
    /\ scenario = "Date" /\ pc = "raw" /\ date = Some(rawDate)
    /\ rawDate = (2000 - 1980) * 512 + 2 * 32 + 29

----------------------------------------------------------------------------
(* The order of the converted times.                                       *)

\* let timeRes = Time::from_time(calTime)
TimeFromTimeLeft ==
    /\ scenario = "TimePair" /\ pc = "cal"
    /\ timeRes' = Some(Time_from_time(calTime))
    /\ pc' = "left"
    /\ UNCHANGED <<scenario, rawDate, rawTime, date, time, dt, calDate, calTime,
                   dateRes, dtRes, other, out>>

\* let time = Time::from_time(other)
TimeFromTimeRight ==
    /\ scenario = "TimePair" /\ pc = "left"
    /\ time' = Some(Time_from_time(other))
    /\ pc' = "done"
    /\ UNCHANGED <<scenario, rawDate, rawTime, date, dt, calDate, calTime,
                   dateRes, timeRes, dtRes, other, out>>

\* let out = timeRes.cmp(&time)
TimePairCmp ==
    /\ scenario = "TimePair" /\ pc = "done" /\ out.op = "-"
    /\ out' = [NoOut EXCEPT !.op = "cmp", !.s = Time_cmp(timeRes.raw, time.raw)]
    /\ UNCHANGED <<scenario, pc, rawDate, rawTime, date, time, dt, calDate, calTime,
                   dateRes, timeRes, dtRes, other>>

\* C24: Time::from_time keeps the order of two calendar times but not their
\* difference: t1 <= t2 gives from_time(t1) <= from_time(t2), and the two
\* Times are Equal exactly when the hours and the minutes are the same and
\* s1 / 2 = s2 / 2; 10:38:30 and 10:38:31 are Equal, 10:38:29 is smaller
\* than 10:38:30 and 10:38:32 is greater.
C24_FromTimeMonotone ==
    (scenario = "TimePair" /\ out.op = "cmp") =>
        LET t1 == calTime
            t2 == other
            cal == LexCmp(<<t1.hour, t1.minute, t1.second>>,
                          <<t2.hour, t2.minute, t2.second>>)
            at(s) == [hour |-> 10, minute |-> 38, second |-> s]
        IN /\ cal \in {"Less", "Equal"} => out.s \in {"Less", "Equal"}
           /\ cal \in {"Greater", "Equal"} => out.s \in {"Greater", "Equal"}
           /\ out.s = "Equal" <=>
                 /\ t1.hour = t2.hour /\ t1.minute = t2.minute
                 /\ t1.second \div 2 = t2.second \div 2
           /\ (t1 = at(30) /\ t2 = at(31)) => out.s = "Equal"
           /\ (t1 = at(29) /\ t2 = at(30)) => out.s = "Less"
           /\ (t1 = at(32) /\ t2 = at(30)) => out.s = "Greater"

\* 10:38:30 and 10:38:31 have been converted and compared
C24_Witness ==
    /\ scenario = "TimePair" /\ out.op = "cmp" /\ out.s = "Equal"
    /\ calTime = [hour |-> 10, minute |-> 38, second |-> 30]
    /\ other = [hour |-> 10, minute |-> 38, second |-> 31]

----------------------------------------------------------------------------
(* The internal assertions.                                                *)

\* C25: through Date::new, Time::new, Date::from_date, Time::from_time, the
\* six accessors and the conversions to time::Date and time::Time, applied
\* to the values those functions returned, no `expect` fails and no integer
\* operation leaves its type: 1980 + (raw >> 9) fits a u16,
\* (raw & 0x1f) * 2 fits a u8, and the three packed fields do not overlap.
C25_NoAssertionReachable ==
    /\ pc # "panic"
    /\ date.tag \in {"Unset", "Some", "None"}
    /\ time.tag \in {"Unset", "Some", "None"}
    /\ dateRes.tag \in {"Unset", "Ok", "Err"}
    /\ timeRes.tag \in {"Unset", "Some"}
    /\ out.s # "panic"
    /\ scenario = "Date" => 1980 + (rawDate \div 512) <= U16_MAX
    /\ scenario = "Time" => (rawTime % 32) * 2 <= U8_MAX
    /\ dateRes.tag = "Ok" =>
          /\ calDate.day < 32 /\ calDate.month * 32 + calDate.day < 512
          /\ (calDate.year - 1980) * 512 + 511 <= U16_MAX
          /\ dateRes.raw <= U16_MAX
    /\ timeRes.tag = "Some" =>
          /\ calTime.second \div 2 < 32
          /\ calTime.minute * 32 + (calTime.second \div 2) < 2048
          /\ calTime.hour * 2048 + 2047 <= U16_MAX
          /\ timeRes.raw <= U16_MAX

\* an accessor has returned for a Date that went from Date::new through
\* time::Date back to Date::from_date
C25_Witness ==
    /\ scenario = "Date" /\ pc = "done" /\ date.tag = "Some"
    /\ dateRes = Ok(Date_MAX)
    /\ out.op = "month" /\ out.s = "value" /\ out.n = 12

----------------------------------------------------------------------------
(* The accessors.                                                          *)

\* C26: the Date that Date::from_date returns for a calendar date (y, m, d),
\* 1980 <= y <= 2107, has year() = y, month() = m and day() = d; the Time
\* that Time::from_time returns for a calendar time (h, m, s) has hour() = h,
\* minute() = m and second() = s - (s mod 2), which is even and in 0..=58.
C26_AccessorsReturnFields ==
    /\ (scenario = "Date" /\ pc = "done"
           /\ 1980 <= calDate.year /\ calDate.year <= 2107) =>
          /\ dateRes.tag = "Ok"
          /\ out.op \in {"year", "month", "day"} => out.s = "value"
          /\ out.op = "year" => out.n = calDate.year
          /\ out.op = "month" => out.n = calDate.month
          /\ out.op = "day" => out.n = calDate.day
    /\ (scenario = "Time" /\ pc = "done") =>
          /\ timeRes.tag = "Some"
          /\ out.op \in {"hour", "minute", "second"} => out.s = "value"
          /\ out.op = "hour" => out.n = calTime.hour
          /\ out.op = "minute" => out.n = calTime.minute
          /\ out.op = "second" =>
                /\ out.n = calTime.second - (calTime.second % 2)
                /\ out.n % 2 = 0 /\ out.n \in 0..58

\* second() has returned 58 for the Time of 23:59:59
C26_Witness ==
    /\ scenario = "Time" /\ pc = "done" /\ time = Unset
    /\ calTime = [hour |-> 23, minute |-> 59, second |-> 59]
    /\ out.op = "second" /\ out.n = 58

----------------------------------------------------------------------------
(* The clamp of the seconds.                                               *)

\* C27: for a calendar time the clamp of Time::from_time decides nothing:
\* its second s is in 0..=59, so s / 2 <= 29 and min(s / 2, 29) = s / 2, and
\* the DoubleSeconds field of the result is s / 2; the clamp changes the
\* value only for s >= 60, which time::Time::from_hms refuses.
C27_ClampNeverDecides ==
    /\ (scenario = "Time" /\ pc = "done") =>
          LET s == calTime.second
          IN /\ s \in 0..59 /\ s \div 2 <= 29 /\ Min(s \div 2, 29) = s \div 2
             /\ timeRes.tag = "Some"
             /\ Time_to_raw(timeRes.raw) % 32 = s \div 2
             /\ Time_to_raw(timeRes.raw) =
                    calTime.hour * 2048 + calTime.minute * 32 + (s \div 2)
    /\ (scenario = "DateTime16" /\ pc = "done" /\ dtRes.tag = "Ok") =>
          /\ calTime.second \in 0..59
          /\ date_time_time(dtRes) % 32 = calTime.second \div 2
    /\ (scenario = "Time" /\ pc = "done"
           /\ calTime = [hour |-> 23, minute |-> 59, second |-> 59]) =>
          \A s \in 0..U8_MAX :
              /\ Min(s \div 2, 29) # s \div 2 => s >= 60
              /\ s >= 60 => from_hms(calTime.hour, calTime.minute, s).tag = "Err"

\* Time::from_time has converted 12:30:59, the largest second
C27_Witness ==
    /\ scenario = "Time" /\ pc = "done" /\ time = Unset
    /\ calTime = [hour |-> 12, minute |-> 30, second |-> 59]
    /\ timeRes.tag = "Some" /\ timeRes.raw % 32 = 29

----------------------------------------------------------------------------
(* The encodings as bijections.                                            *)

\* if Date::new(rawDate).is_some() { n += 1 }, and the next raw value
CountDate ==
    /\ scenario = "CountDate" /\ rawDate <= U16_MAX
    /\ out' = [out EXCEPT !.n = @ + (IF Date_new(rawDate).tag = "Some" THEN 1 ELSE 0)]
    /\ rawDate' = rawDate + 1
    /\ UNCHANGED <<scenario, pc, rawTime, date, time, dt, calDate, calTime,
                   dateRes, timeRes, dtRes, other>>

\* if Time::new(rawTime).is_some() { n += 1 }, and the next raw value
CountTime ==
    /\ scenario = "CountTime" /\ rawTime <= U16_MAX
    /\ out' = [out EXCEPT !.n = @ + (IF Time_new(rawTime).tag = "Some" THEN 1 ELSE 0)]
    /\ rawTime' = rawTime + 1
    /\ UNCHANGED <<scenario, pc, rawDate, date, time, dt, calDate, calTime,
                   dateRes, timeRes, dtRes, other>>

\* C28: Date::from_date is injective on the calendar dates 1980-01-01 to
\* 2107-12-31 (the calendar date is read back from the raw value) and its
\* image is the set of the raw values Date::new accepts (each result is
\* accepted as it is, and each accepted value is the result for the calendar
\* date it decodes to); Date::new accepts 46751 of the 65536 raw values and
\* Time::new accepts 43200 = 24 * 60 * 30 of them.
C28_Bijections ==
    /\ (scenario = "Date" /\ pc = "done" /\ date = Unset
           /\ 1980 <= calDate.year /\ calDate.year <= 2107) =>
          /\ dateRes.tag = "Ok"
          /\ Date_new(dateRes.raw) = Some(dateRes.raw)
          /\ TimeDate_from(dateRes.raw) = [tag |-> "Ok", v |-> calDate]
    /\ (scenario = "Date" /\ pc = "done" /\ date.tag = "Some") =>
          /\ 1980 <= calDate.year /\ calDate.year <= 2107
          /\ dateRes = Ok(date.raw)
    /\ (scenario = "Date" /\ pc = "done" /\ date = Unset
           /\ (calDate.year < 1980 \/ calDate.year > 2107)) => dateRes.tag = "Err"
    /\ (scenario = "CountDate" /\ rawDate = U16_MAX + 1) => out.n = 46751
    /\ (scenario = "CountTime" /\ rawTime = U16_MAX + 1) =>
          (out.n = 43200 /\ out.n = 24 * 60 * 30)
    /\ scenario \in {"CountDate", "CountTime"} =>
          (out.n <= rawDate + rawTime /\ rawDate + rawTime <= U16_MAX + 1)

\* Date::from_date has returned the raw value of 2100-02-28, which Date::new
\* accepts and which decodes to that day
C28_Witness ==
    /\ scenario = "Date" /\ pc = "done" /\ date = Unset
    /\ calDate = [year |-> 2100, month |-> 2, day |-> 28]
    /\ dateRes.tag = "Ok" /\ Date_new(dateRes.raw) = Some(dateRes.raw)

----------------------------------------------------------------------------
(* The order of the DateTime of the module date_time.                      *)

\* impl Ord for date_time::DateTime returning once the minutes are compared
date_time_cmp_no_second(a, b) ==
    IF NumCmp(date_time_year(a), date_time_year(b)) # "Equal"
    THEN NumCmp(date_time_year(a), date_time_year(b))
    ELSE IF NumCmp(date_time_month(a).raw, date_time_month(b).raw) # "Equal"
    THEN NumCmp(date_time_month(a).raw, date_time_month(b).raw)
    ELSE IF NumCmp(date_time_day(a), date_time_day(b)) # "Equal"
    THEN NumCmp(date_time_day(a), date_time_day(b))
    ELSE IF NumCmp(date_time_hour(a), date_time_hour(b)) # "Equal"
    THEN NumCmp(date_time_hour(a), date_time_hour(b))
    ELSE NumCmp(date_time_minute(a), date_time_minute(b))

\* impl Ord for date_time::DateTime: year, month, day, hour, minute, second,
\* the first that differs decides
date_time_cmp(a, b) ==
    IF NumCmp(date_time_year(a), date_time_year(b)) # "Equal"
    THEN NumCmp(date_time_year(a), date_time_year(b))
    ELSE IF NumCmp(date_time_month(a).raw, date_time_month(b).raw) # "Equal"
    THEN NumCmp(date_time_month(a).raw, date_time_month(b).raw)
    ELSE IF NumCmp(date_time_day(a), date_time_day(b)) # "Equal"
    THEN NumCmp(date_time_day(a), date_time_day(b))
    ELSE IF NumCmp(date_time_hour(a), date_time_hour(b)) # "Equal"
    THEN NumCmp(date_time_hour(a), date_time_hour(b))
    ELSE IF NumCmp(date_time_minute(a), date_time_minute(b)) # "Equal"
    THEN NumCmp(date_time_minute(a), date_time_minute(b))
    ELSE NumCmp(date_time_second(a), date_time_second(b))

\* let out = dt.cmp(&other), or the panic of month() in it
DateTime16Cmp ==
    /\ scenario = "DateTime16Cmp" /\ dt.tag = "Some" /\ out.op = "-"
    /\ LET a == [date |-> dt.date, time |-> dt.time]
       IN out' = IF date_time_month(a).tag = "None" \/ date_time_month(other).tag = "None"
                 THEN [NoOut EXCEPT !.op = "cmp", !.s = "panic"]
                 ELSE [NoOut EXCEPT !.op = "cmp", !.s = date_time_cmp(a, other)]
    /\ UNCHANGED <<scenario, pc, rawDate, rawTime, date, time, dt, calDate, calTime,
                   dateRes, timeRes, dtRes, other>>

\* Ordering::reverse
Reverse(o) == IF o = "Less" THEN "Greater" ELSE IF o = "Greater" THEN "Less" ELSE o

\* C29: for two valid date_time::DateTime a and b, a.cmp(b) is Equal exactly
\* when a == b, that is when the date raws and the time raws are the same;
\* it is the lexicographic comparison of (a.date(), a.time()) with
\* (b.date(), b.time()); the order is total, antisymmetric and transitive.
C29_LegacyOrdConsistent ==
    (scenario = "DateTime16Cmp" /\ out.op = "cmp") =>
        LET a == [date |-> dt.date, time |-> dt.time]
            b == other
        IN /\ out.s \in {"Less", "Equal", "Greater"}
           /\ out.s = "Equal" <=> a = b
           /\ out.s = LexCmp(<<date_time_date(a), date_time_time(a)>>,
                             <<date_time_date(b), date_time_time(b)>>)
           /\ date_time_cmp(b, a) = Reverse(out.s)
           /\ \A c \in CmpDateTimes :
                 (out.s # "Greater" /\ date_time_cmp(b, c) # "Greater")
                     => date_time_cmp(a, c) # "Greater"

\* two DateTimes that differ in the seconds only have been compared
C29_Witness ==
    /\ scenario = "DateTime16Cmp" /\ out.op = "cmp" /\ out.s = "Less"
    /\ dt.date = 19825 /\ other.date = 19825
    /\ dt.time = 21711 - 1 /\ other.time = 21711

----------------------------------------------------------------------------
(* The accessors over all bit patterns.                                    *)

\* C30: for every raw u16 r, valid or not, handed to the unchecked
\* constructors, Date::year() returns 1980 + (r >> 9), in 1980..=2107,
\* Date::day() returns r & 0x1f, in 0..=31, Time::hour() returns r >> 11, in
\* 0..=31, Time::minute() returns (r >> 5) & 0x3f, in 0..=63, and
\* Time::second() returns 2 * (r & 0x1f), even and in 0..=62; none panics
\* and no field is clamped.
C30_AccessorsTotal ==
    /\ (scenario = "DateUnchecked" /\ out.op \in {"year", "day"}) =>
          /\ out.s = "value" /\ date.raw = rawDate
          /\ out.op = "year" =>
                (out.n = 1980 + (rawDate \div 512) /\ out.n \in 1980..2107)
          /\ out.op = "day" => (out.n = rawDate % 32 /\ out.n \in 0..31)
    /\ (scenario = "TimeUnchecked" /\ out.op \in {"hour", "minute", "second"}) =>
          /\ out.s = "value" /\ time.raw = rawTime
          /\ out.op = "hour" => (out.n = rawTime \div 2048 /\ out.n \in 0..31)
          /\ out.op = "minute" =>
                (out.n = (rawTime \div 32) % 64 /\ out.n \in 0..63)
          /\ out.op = "second" =>
                /\ out.n = 2 * (rawTime % 32)
                /\ out.n % 2 = 0 /\ out.n \in 0..62

\* second() has returned 62 for the Time of the raw value 0xFFFF
C30_Witness ==
    /\ scenario = "TimeUnchecked" /\ rawTime = U16_MAX
    /\ time = Some(U16_MAX)
    /\ out.op = "second" /\ out.s = "value" /\ out.n = 62

InitDate == InitDateRaw \/ InitDateCal
NextDate == DateNew \/ DateInto \/ DateFromDate
SpecDate == InitDate /\ [][NextDate]_vars

InitTime == InitTimeRaw \/ InitTimeCal
NextTime == TimeNew \/ TimeInto \/ TimeFromTime
SpecTime == InitTime /\ [][NextTime]_vars

NextNew == DateNew \/ TimeNew
SpecNew == InitNew /\ [][NextNew]_vars

InitDateTime == InitDateTimeRaw \/ InitDateTimeCal
NextDateTime == DateNew \/ TimeNew \/ DateTimeNew \/ DateTimeInto \/ DateTimeFromDateTime
SpecDateTime == InitDateTime /\ [][NextDateTime]_vars

Init == InitDate \/ InitTime
Next == NextDate \/ NextTime
Spec == Init /\ [][Next]_vars

InitSafe == Init \/ InitConst
SpecSafe == InitSafe /\ [][Next]_vars

SpecDateCmp == InitDateCmp /\ [][DateCmp]_vars
SpecTimeCmp == InitTimeCmp /\ [][TimeCmp]_vars
SpecDateTimeCmp == InitDateTimeCmp /\ [][DateTimeCmp]_vars

InitCmp == InitDateCmp \/ InitTimeCmp \/ InitDateTimeCmp
NextCmp == DateCmp \/ TimeCmp \/ DateTimeCmp
SpecCmp == InitCmp /\ [][NextCmp]_vars


InitDateValid == InitDateUnchecked \/ InitDateRaw \/ InitDateCal
NextDateValid == DateNewUnchecked \/ DateNew \/ DateFromDate \/ DateIsValid
SpecDateValid == InitDateValid /\ [][NextDateValid]_vars


InitTimeValid == InitTimeUnchecked \/ InitTimeRaw \/ InitTimeCal
NextTimeValid == TimeNewUnchecked \/ TimeNew \/ TimeFromTime \/ TimeIsValid
SpecTimeValid == InitTimeValid /\ [][NextTimeValid]_vars


InitDateFields == InitDateUnchecked \/ InitDateRaw
NextDateFields == DateNewUnchecked \/ DateNew \/ DateMonth \/ DateDay
SpecDateFields == InitDateFields /\ [][NextDateFields]_vars


InitDisplay == InitDateRaw \/ InitTimeRaw \/ InitDateTime16
NextDisplay ==
    \/ DateNew \/ TimeNew \/ DateTime16New
    \/ DateDisplay \/ TimeDisplay \/ DateTimeDisplay
SpecDisplay == InitDisplay /\ [][NextDisplay]_vars


InitDateTime16All == InitDateTime16 \/ InitDateTime16Each \/ InitDateTime16Cal
NextDateTime16 == DateTime16New \/ DateTime16FromDateTime
SpecDateTime16 == InitDateTime16All /\ [][NextDateTime16]_vars


NextTimePair == TimeFromTimeLeft \/ TimeFromTimeRight \/ TimePairCmp
SpecTimePair == InitTimePair /\ [][NextTimePair]_vars


InitSafeApi == InitDateRaw \/ InitDateCal \/ InitTimeRaw \/ InitTimeCal
NextSafeApi ==
    \/ DateNew \/ DateInto \/ DateFromDate
    \/ TimeNew \/ TimeInto \/ TimeFromTime
    \/ DateYear \/ DateMonth \/ DateDay
    \/ TimeHour \/ TimeMinute \/ TimeSecond
SpecSafeApi == InitSafeApi /\ [][NextSafeApi]_vars


InitAccessors == InitDateCal \/ InitTimeCal
NextAccessors ==
    \/ DateFromDate \/ TimeFromTime
    \/ DateYear \/ DateMonth \/ DateDay
    \/ TimeHour \/ TimeMinute \/ TimeSecond
SpecAccessors == InitAccessors /\ [][NextAccessors]_vars


InitClamp == InitTimeCal \/ InitDateTime16Cal
NextClamp == TimeFromTime \/ DateTime16FromDateTime
SpecClamp == InitClamp /\ [][NextClamp]_vars


InitBijection == InitDateRaw \/ InitDateCal \/ InitCount
NextBijection == DateNew \/ DateInto \/ DateFromDate \/ CountDate \/ CountTime
SpecBijection == InitBijection /\ [][NextBijection]_vars


SpecDateTime16Cmp == InitDateTime16Cmp /\ [][DateTime16Cmp]_vars


InitUnchecked == InitDateUnchecked \/ InitTimeUnchecked
NextUnchecked ==
    \/ DateNewUnchecked \/ TimeNewUnchecked
    \/ DateYear \/ DateDay
    \/ TimeHour \/ TimeMinute \/ TimeSecond
SpecUnchecked == InitUnchecked /\ [][NextUnchecked]_vars

====
